---- MODULE Spec2Model ----
(***************************************************************************)
(* odict (src/src/odict/pyodict.py): an ordered dictionary kept as a       *)
(* doubly linked list threaded through the entries of a hash map.  Every   *)
(* entry is the list [prev_key, value, next_key]; lh and lt name the first *)
(* and the last key, _nil stands for "no key".                             *)
(*                                                                         *)
(* One odict object is modelled.  Every method is an operator from the     *)
(* object (and the call's arguments) to the object after the call, the     *)
(* exception raised and the value returned, translated statement by        *)
(* statement, so that a call that raises half way keeps the assignments    *)
(* made before the raise.  An action is one call of one method.            *)
(***************************************************************************)
EXTENDS Integers, Sequences, FiniteSets, TLC

\* Bounds of the model.
MaxKeys == 3
MaxVal == 2
MaxData == 1
MaxLinkKeys == 5
MaxRenameKeys == 4
MaxPairKeys == 2
MaxPairs == 3
MaxCopyKeys == 3
MaxInsertPairs == 2
MaxIterKeys == 3

Keys == 1..MaxKeys
LinkKeys == 1..MaxLinkKeys
RenameKeys == 1..MaxRenameKeys
PairKeys == 1..MaxPairKeys
Vals == 1..MaxVal

\* _nil (pyodict.py:34): equal to itself only, never to a key.
nil == 0

Pairs == Keys \X Vals
RECURSIVE SeqsUpTo(_, _)
SeqsUpTo(S, n) ==
  IF n = 0 THEN {<<>>}
  ELSE LET shorter == SeqsUpTo(S, n - 1)
       IN shorter \cup {Append(s, x) : s \in {t \in shorter : Len(t) = n - 1}, x \in S}
DataSeqs == SeqsUpTo(Pairs, MaxData)
\* The pairs of update and of the constructor.  A value is stored and handed
\* back, never looked into: two values are enough to tell one from another.
PairVals == {1, MaxVal}
PairSeqs == SeqsUpTo(PairKeys \X PairVals, MaxPairs)
Kwds == SeqsUpTo(PairKeys \X PairVals, 1)

VARIABLES
  dict,   \* the hash map: key -> [prev, val, next]
  lh,     \* list head: first key or nil
  lt,     \* list tail: last key or nil
  last,   \* the call that has just ended: method, arguments, the object before
          \* the call, the exception raised and the value returned; Idle between calls
  other,  \* the map that copy() returned, once the caller has made one
  shared, \* the keys whose entry list is one list object held by both maps
  inserted, \* the caller's record of its own calls: the keys it has put into the
          \* map and not taken out since, in the order in which it put them
  iters   \* the generators the caller holds on the map: for each its position in
          \* the code, its local variables and what it has yielded so far

vars == <<dict, lh, lt, last, other, shared, inserted, iters>>

-----------------------------------------------------------------------------
\* Objects and call results.

EmptyDict == [k \in {} |-> nil]
Empty == [dict |-> EmptyDict, lh |-> nil, lt |-> nil]
Obj == [dict |-> dict, lh |-> lh, lt |-> lt]

Ok(S, r) == [st |-> S, exc |-> "none", ret |-> r]
Raise(S, e) == [st |-> S, exc |-> e, ret |-> <<>>]

Has(S, k) == k \in DOMAIN S.dict
Put(d, k, e) == [x \in DOMAIN d \cup {k} |-> IF x = k THEN e ELSE d[x]]
Del(d, k) == [x \in DOMAIN d \ {k} |-> d[x]]

-----------------------------------------------------------------------------
\* Traversals.  A walk that has produced more keys than the map stores is in a
\* cycle of links and never ends: its outcome is "hang".

RECURSIVE iterkeys(_, _, _)
iterkeys(S, curr_key, acc) ==
  IF curr_key = nil THEN Ok(S, acc)
  ELSE IF Len(acc) > Cardinality(DOMAIN S.dict) THEN Raise(S, "hang")
  ELSE IF ~Has(S, curr_key) THEN Raise(S, "KeyError")
  ELSE iterkeys(S, S.dict[curr_key].next, Append(acc, curr_key))

keys(S) == iterkeys(S, S.lh, <<>>)

RECURSIVE iteritems(_, _, _)
iteritems(S, curr_key, acc) ==
  IF curr_key = nil THEN Ok(S, acc)
  ELSE IF Len(acc) > Cardinality(DOMAIN S.dict) THEN Raise(S, "hang")
  ELSE IF ~Has(S, curr_key) THEN Raise(S, "KeyError")
  ELSE LET val == S.dict[curr_key].val
           next_key == S.dict[curr_key].next
       IN iteritems(S, next_key, Append(acc, <<curr_key, val>>))

items(S) == iteritems(S, S.lh, <<>>)

\* itervalues that unpacks the entry in the wrong order and yields prev.
RECURSIVE itervalues_prev(_, _, _)
itervalues_prev(S, curr_key, acc) ==
  IF curr_key = nil THEN Ok(S, acc)
  ELSE IF Len(acc) > Cardinality(DOMAIN S.dict) THEN Raise(S, "hang")
  ELSE IF ~Has(S, curr_key) THEN Raise(S, "KeyError")
  ELSE itervalues_prev(S, S.dict[curr_key].next, Append(acc, S.dict[curr_key].prev))

RECURSIVE itervalues(_, _, _)
itervalues(S, curr_key, acc) ==
  IF curr_key = nil THEN Ok(S, acc)
  ELSE IF Len(acc) > Cardinality(DOMAIN S.dict) THEN Raise(S, "hang")
  ELSE IF ~Has(S, curr_key) THEN Raise(S, "KeyError")
  ELSE itervalues(S, S.dict[curr_key].next, Append(acc, S.dict[curr_key].val))

values(S) == itervalues(S, S.lh, <<>>)

RECURSIVE riterkeys(_, _, _)
riterkeys(S, curr_key, acc) ==
  IF curr_key = nil THEN Ok(S, acc)
  ELSE IF Len(acc) > Cardinality(DOMAIN S.dict) THEN Raise(S, "hang")
  ELSE IF ~Has(S, curr_key) THEN Raise(S, "KeyError")
  ELSE riterkeys(S, S.dict[curr_key].prev, Append(acc, curr_key))

rkeys(S) == riterkeys(S, S.lt, <<>>)

\* ritervalues that takes the next key from the wrong end of the entry.
RECURSIVE ritervalues_next(_, _, _)
ritervalues_next(S, curr_key, acc) ==
  IF curr_key = nil THEN Ok(S, acc)
  ELSE IF Len(acc) > Cardinality(DOMAIN S.dict) THEN Raise(S, "hang")
  ELSE IF ~Has(S, curr_key) THEN Raise(S, "KeyError")
  ELSE ritervalues_next(S, S.dict[curr_key].next, Append(acc, S.dict[curr_key].val))

RECURSIVE ritervalues(_, _, _)
ritervalues(S, curr_key, acc) ==
  IF curr_key = nil THEN Ok(S, acc)
  ELSE IF Len(acc) > Cardinality(DOMAIN S.dict) THEN Raise(S, "hang")
  ELSE IF ~Has(S, curr_key) THEN Raise(S, "KeyError")
  ELSE ritervalues(S, S.dict[curr_key].prev, Append(acc, S.dict[curr_key].val))

rvalues(S) == ritervalues(S, S.lt, <<>>)

RECURSIVE riteritems(_, _, _)
riteritems(S, curr_key, acc) ==
  IF curr_key = nil THEN Ok(S, acc)
  ELSE IF Len(acc) > Cardinality(DOMAIN S.dict) THEN Raise(S, "hang")
  ELSE IF ~Has(S, curr_key) THEN Raise(S, "KeyError")
  ELSE LET pred_key == S.dict[curr_key].prev
           val == S.dict[curr_key].val
       IN riteritems(S, pred_key, Append(acc, <<curr_key, val>>))

ritems(S) == riteritems(S, S.lt, <<>>)

\* __len__ is len(self.keys()); the truth value of an odict is __len__() != 0.
len(S) ==
  LET ks == keys(S)
  IN IF ks.exc = "none" THEN Ok(S, <<Len(ks.ret)>>) ELSE Raise(S, ks.exc)

-----------------------------------------------------------------------------
\* Item access.

getitem(S, key) ==
  IF Has(S, key) THEN Ok(S, <<S.dict[key].val>>) ELSE Raise(S, "KeyError")

contains(S, key) == getitem(S, key).exc = "none"

\* setitem that links a new key in before the head, not after the tail.
setitem_athead(S, key, val) ==
  IF Has(S, key)
  THEN Ok([S EXCEPT !.dict[key].val = val], <<>>)
  ELSE LET head == S.lh
           new == [prev |-> nil, val |-> val, next |-> head]
           S1 == [S EXCEPT !.dict = Put(S.dict, key, new)]
       IN IF head = nil
          THEN Ok([S1 EXCEPT !.lh = key, !.lt = key], <<>>)
          ELSE Ok([S1 EXCEPT !.dict[head].prev = key, !.lh = key], <<>>)

\* setitem gone wrong: a present key gets a new list, which ends the chain.
setitem_newlist(S, key, val) ==
  IF Has(S, key)
  THEN Ok([S EXCEPT !.dict[key] = [prev |-> @.prev, val |-> val, next |-> nil]], <<>>)
  ELSE LET tail == S.lt
           new == [prev |-> tail, val |-> val, next |-> nil]
           S1 == [S EXCEPT !.dict = Put(S.dict, key, new)]
       IN IF tail = nil
          THEN Ok([S1 EXCEPT !.lh = key, !.lt = key], <<>>)
          ELSE IF ~Has(S1, tail) THEN Raise(S1, "KeyError")
          ELSE Ok([S1 EXCEPT !.dict[tail].next = key, !.lt = key], <<>>)

\* setitem gone wrong: the old tail is not linked to the new key.
setitem_unlinked(S, key, val) ==
  IF Has(S, key)
  THEN Ok([S EXCEPT !.dict[key].val = val], <<>>)
  ELSE LET tail == S.lt
           new == [prev |-> tail, val |-> val, next |-> nil]
           S1 == [S EXCEPT !.dict = Put(S.dict, key, new)]
       IN IF tail = nil
          THEN Ok([S1 EXCEPT !.lh = key, !.lt = key], <<>>)
          ELSE Ok([S1 EXCEPT !.lt = key], <<>>)

setitem(S, key, val) ==
  IF Has(S, key)
  THEN Ok([S EXCEPT !.dict[key].val = val], <<>>)
  ELSE LET tail == S.lt
           new == [prev |-> tail, val |-> val, next |-> nil]
           S1 == [S EXCEPT !.dict = Put(S.dict, key, new)]
       IN IF tail = nil
          THEN Ok([S1 EXCEPT !.lh = key, !.lt = key], <<>>)
          ELSE IF ~Has(S1, tail) THEN Raise(S1, "KeyError")
          ELSE Ok([S1 EXCEPT !.dict[tail].next = key, !.lt = key], <<>>)

\* delitem gone wrong: lt is left alone when the tail is deleted.
delitem_notail(S, key) ==
  IF ~Has(S, key) THEN Raise(S, "KeyError")
  ELSE
    LET pred == S.dict[key].prev
        succ == S.dict[key].next
    IN IF pred # nil /\ ~Has(S, pred) THEN Raise(S, "KeyError")
       ELSE
         LET S1 == IF pred = nil THEN [S EXCEPT !.lh = succ]
                   ELSE [S EXCEPT !.dict[pred].next = succ]
         IN IF succ # nil /\ ~Has(S1, succ) THEN Raise(S1, "KeyError")
            ELSE
              LET S2 == IF succ = nil THEN S1
                        ELSE [S1 EXCEPT !.dict[succ].prev = pred]
              IN Ok([S2 EXCEPT !.dict = Del(S2.dict, key)], <<>>)

\* delitem that leaves the prev of the successor naming the deleted key.
delitem_oneway(S, key) ==
  IF ~Has(S, key) THEN Raise(S, "KeyError")
  ELSE
    LET pred == S.dict[key].prev
        succ == S.dict[key].next
    IN IF pred # nil /\ ~Has(S, pred) THEN Raise(S, "KeyError")
       ELSE
         LET S1 == IF pred = nil THEN [S EXCEPT !.lh = succ]
                   ELSE [S EXCEPT !.dict[pred].next = succ]
         IN IF succ # nil /\ ~Has(S1, succ) THEN Raise(S1, "KeyError")
            ELSE
              LET S2 == IF succ = nil THEN [S1 EXCEPT !.lt = pred] ELSE S1
              IN Ok([S2 EXCEPT !.dict = Del(S2.dict, key)], <<>>)

\* delitem that leaves lh alone when the head is deleted.
delitem_nohead(S, key) ==
  IF ~Has(S, key) THEN Raise(S, "KeyError")
  ELSE
    LET pred == S.dict[key].prev
        succ == S.dict[key].next
    IN IF pred # nil /\ ~Has(S, pred) THEN Raise(S, "KeyError")
       ELSE
         LET S1 == IF pred = nil THEN S
                   ELSE [S EXCEPT !.dict[pred].next = succ]
         IN IF succ # nil /\ ~Has(S1, succ) THEN Raise(S1, "KeyError")
            ELSE
              LET S2 == IF succ = nil THEN [S1 EXCEPT !.lt = pred]
                        ELSE [S1 EXCEPT !.dict[succ].prev = pred]
              IN Ok([S2 EXCEPT !.dict = Del(S2.dict, key)], <<>>)

delitem(S, key) ==
  IF ~Has(S, key) THEN Raise(S, "KeyError")
  ELSE
    LET pred == S.dict[key].prev
        succ == S.dict[key].next
    IN IF pred # nil /\ ~Has(S, pred) THEN Raise(S, "KeyError")
       ELSE
         LET S1 == IF pred = nil THEN [S EXCEPT !.lh = succ]
                   ELSE [S EXCEPT !.dict[pred].next = succ]
         IN IF succ # nil /\ ~Has(S1, succ) THEN Raise(S1, "KeyError")
            ELSE
              LET S2 == IF succ = nil THEN [S1 EXCEPT !.lt = pred]
                        ELSE [S1 EXCEPT !.dict[succ].prev = pred]
              IN Ok([S2 EXCEPT !.dict = Del(S2.dict, key)], <<>>)

\* The loop gone wrong: the pairs are applied from the last to the first.
RECURSIVE setall_backwards(_, _)
setall_backwards(S, data) ==
  IF data = <<>> THEN Ok(S, <<>>)
  ELSE LET r == setitem(S, data[Len(data)][1], data[Len(data)][2])
       IN IF r.exc # "none" THEN r
          ELSE setall_backwards(r.st, SubSeq(data, 1, Len(data) - 1))

\* for key, val in data: self[key] = val
RECURSIVE setall(_, _)
setall(S, data) ==
  IF data = <<>> THEN Ok(S, <<>>)
  ELSE LET r == setitem(S, Head(data)[1], Head(data)[2])
       IN IF r.exc # "none" THEN r ELSE setall(r.st, Tail(data))

\* __init__(data) without keywords, on the object S.
init(S, data) == setall(S, data)

\* clear that empties the table and leaves lh and lt.
clear_table_only(S) == Ok([S EXCEPT !.dict = EmptyDict], <<>>)

clear(S) == Ok(Empty, <<>>)

\* A copy that takes the table as it is: the new map holds the very entry
\* lists of the original under every key.
copy_same_lists(S) ==
  Ok(S, [dict |-> S.dict, lh |-> S.lh, lt |-> S.lt, shared |-> DOMAIN S.dict])

\* copy(): self.__class__(self).  __init__ finds items() on its argument and
\* sets every pair of it, in order, into the new, empty map; __setitem__ makes
\* a new list for each key, so the two maps hold no entry list in common.
copy(S) ==
  LET its == items(S)
      new == init(Empty, its.ret)
  IN IF its.exc # "none" THEN Raise(S, its.exc)
     ELSE IF new.exc # "none" THEN Raise(S, new.exc)
     ELSE Ok(S, [dict |-> new.st.dict, lh |-> new.st.lh, lt |-> new.st.lt,
                 shared |-> {}])

\* update that sets a key at its first pair only: later pairs with a key that
\* the sequence had before are passed over.
RECURSIVE update_first_value(_, _)
update_first_value(S, data) ==
  IF data = <<>> THEN Ok(S, <<>>)
  ELSE LET n == Len(data)
           r == update_first_value(S, SubSeq(data, 1, n - 1))
       IN IF r.exc # "none" THEN r
          ELSE IF \E i \in 1..(n - 1) : data[i][1] = data[n][1] THEN r
          ELSE setitem(r.st, data[n][1], data[n][2])

\* update(data): for key, val in data: self[key] = val
update(S, data) == setall(S, data)

\* update that looks at its keyword arguments after the pairs are applied.
update_kwds_late(S, data, kwds) ==
  IF kwds # <<>> THEN Raise(update(S, data).st, "TypeError") ELSE update(S, data)

\* update(data, **kwds): keyword arguments are refused before anything else.
update_kwds(S, data, kwds) ==
  IF kwds # <<>> THEN Raise(S, "TypeError") ELSE update(S, data)

\* __init__(data, **kwds) on the new object S.
init_kwds(S, data, kwds) ==
  IF kwds # <<>> THEN Raise(S, "TypeError") ELSE init(S, data)

\* setdefault that stores the default over a value that is there.
setdefault_overwrite(S, key, default) ==
  LET w == setitem(S, key, default)
  IN IF w.exc = "none" THEN Ok(w.st, <<default>>) ELSE w

setdefault(S, key, default) ==
  LET r == getitem(S, key)
  IN IF r.exc = "none" THEN r ELSE
     LET w == setitem(S, key, default)
     IN IF w.exc = "none" THEN Ok(w.st, <<default>>) ELSE w

\* pop that hands back the default whenever one is given.
pop_default_first(S, key, default) ==
  LET r == getitem(S, key)
      d == IF r.exc = "none" THEN delitem(S, key) ELSE r
  IN IF default # nil THEN Ok(S, <<default>>)
     ELSE IF d.exc = "none" THEN Ok(d.st, r.ret)
     ELSE Raise(d.st, "KeyError")

\* pop(key, default): default = nil stands for "no default given".
pop(S, key, default) ==
  LET r == getitem(S, key)
      d == IF r.exc = "none" THEN delitem(S, key) ELSE r
  IN IF d.exc = "none" THEN Ok(d.st, r.ret)
     ELSE IF default = nil THEN Raise(d.st, "KeyError")
     ELSE Ok(d.st, <<default>>)

\* popitem that takes the entry at the head.
popitem_head(S) ==
  LET key == S.lh
      r == pop(S, key, nil)
  IN IF r.exc = "none" THEN Ok(r.st, <<key, r.ret[1]>>) ELSE Raise(r.st, "KeyError")

popitem(S) ==
  LET key == S.lt
      r == pop(S, key, nil)
  IN IF r.exc = "none" THEN Ok(r.st, <<key, r.ret[1]>>) ELSE Raise(r.st, "KeyError")

-----------------------------------------------------------------------------
\* alter_key, sort, first and last key.

\* alter_key that leaves the successor's prev naming old_key.
alter_key_oldprev(S, old_key, new_key) ==
  IF ~Has(S, old_key) THEN Raise(S, "KeyError")
  ELSE
    LET val == S.dict[old_key]
        S1 == [S EXCEPT !.dict = Del(S.dict, old_key)]
        S2 == IF val.prev # nil
              THEN [S1 EXCEPT !.dict[val.prev] =
                      [prev |-> @.prev, val |-> @.val, next |-> new_key]]
              ELSE [S1 EXCEPT !.lh = new_key]
        S3 == IF val.next # nil THEN S2 ELSE [S2 EXCEPT !.lt = new_key]
    IN Ok([S3 EXCEPT !.dict = Put(S3.dict, new_key, val)], <<>>)

alter_key(S, old_key, new_key) ==
  IF ~Has(S, old_key) THEN Raise(S, "KeyError")
  ELSE
    LET val == S.dict[old_key]
        S1 == [S EXCEPT !.dict = Del(S.dict, old_key)]
    IN IF val.prev # nil /\ ~Has(S1, val.prev) THEN Raise(S1, "KeyError")
       ELSE
         LET S2 == IF val.prev # nil
                   THEN [S1 EXCEPT !.dict[val.prev] =
                           [prev |-> @.prev, val |-> @.val, next |-> new_key]]
                   ELSE [S1 EXCEPT !.lh = new_key]
         IN IF val.next # nil /\ ~Has(S2, val.next) THEN Raise(S2, "KeyError")
            ELSE
              LET S3 == IF val.next # nil
                        THEN [S2 EXCEPT !.dict[val.next] =
                                [prev |-> new_key, val |-> @.val, next |-> @.next]]
                        ELSE [S2 EXCEPT !.lt = new_key]
              IN Ok([S3 EXCEPT !.dict = Put(S3.dict, new_key, val)], <<>>)

\* The sort key of an item (k, v): the default is lambda x: x[1]; keyfn "key"
\* stands for a caller's key=lambda x: x[0].
sortkey(x, keyfn) == IF keyfn = "key" THEN x[1] ELSE x[2]

\* sorted(items, key=...): stable, ascending.
RECURSIVE sorted(_, _)
sorted(its, keyfn) ==
  IF its = <<>> THEN <<>>
  ELSE LET n == Len(its)
           x == its[n]
           front == sorted(SubSeq(its, 1, n - 1), keyfn)
           le == {i \in 1..Len(front) : sortkey(front[i], keyfn) <= sortkey(x, keyfn)}
           at == IF le = {} THEN 0 ELSE CHOOSE i \in le : \A j \in le : j <= i
       IN SubSeq(front, 1, at) \o <<x>> \o SubSeq(front, at + 1, Len(front))

\* list.reverse()
reversed(s) == [i \in 1..Len(s) |-> s[Len(s) + 1 - i]]

\* sort that takes no notice of reverse.
sort_ascending(S, keyfn, reverse) ==
  LET its == items(S)
  IN IF its.exc # "none" THEN Raise(S, its.exc)
     ELSE init(clear(S).st, sorted(its.ret, keyfn))

sort(S, keyfn, reverse) ==
  LET its == items(S)
  IN IF its.exc # "none" THEN Raise(S, its.exc)
     ELSE LET srt == sorted(its.ret, keyfn)
              new == IF reverse THEN reversed(srt) ELSE srt
          IN init(clear(S).st, new)

firstkey(S) ==
  LET n == len(S)
  IN IF n.exc # "none" THEN Raise(S, n.exc)
     ELSE IF n.ret[1] # 0 THEN Ok(S, <<S.lh>>)
     ELSE Raise(S, "KeyError")

lastkey(S) ==
  LET n == len(S)
  IN IF n.exc # "none" THEN Raise(S, n.exc)
     ELSE IF n.ret[1] # 0 THEN Ok(S, <<S.lt>>)
     ELSE Raise(S, "KeyError")

\* next_key without the test for the tail.
next_key_unchecked(S, key) ==
  IF ~Has(S, key) THEN Raise(S, "KeyError")
  ELSE Ok(S, <<S.dict[key].next>>)

next_key(S, key) ==
  IF ~Has(S, key) THEN Raise(S, "KeyError")
  ELSE IF S.dict[key].next = nil THEN Raise(S, "KeyError")
  ELSE Ok(S, <<S.dict[key].next>>)

prev_key(S, key) ==
  IF ~Has(S, key) THEN Raise(S, "KeyError")
  ELSE IF S.dict[key].prev = nil THEN Raise(S, "KeyError")
  ELSE Ok(S, <<S.dict[key].prev>>)

-----------------------------------------------------------------------------
\* Reordering: swap, insert relative to a key, move relative to a key.

\* dict[k][2] = x and dict[k][0] = x for a link k read from a list; k = nil
\* means the statement is skipped (its guard was false).
setnext(S, k, x) == IF k = nil THEN S ELSE [S EXCEPT !.dict[k].next = x]
setprev(S, k, x) == IF k = nil THEN S ELSE [S EXCEPT !.dict[k].prev = x]

\* swap_new gone wrong: neighbours are treated like any other pair.
swap_new_apart(S, a, b) ==
  LET orgin_a == S.dict[a]
      orgin_b == S.dict[b]
  IN [a |-> [prev |-> orgin_b.prev, val |-> orgin_a.val, next |-> orgin_b.next],
      b |-> [prev |-> orgin_a.prev, val |-> orgin_b.val, next |-> orgin_a.next]]

\* new_a and new_b: each key gets the other's links and keeps its own value;
\* when the two are neighbours, the links between them are turned around.
swap_new(S, a, b) ==
  LET orgin_a == S.dict[a]
      orgin_b == S.dict[b]
      a0 == [prev |-> orgin_b.prev, val |-> orgin_a.val, next |-> orgin_b.next]
      b0 == [prev |-> orgin_a.prev, val |-> orgin_b.val, next |-> orgin_a.next]
      \* if new_a[0] == a: new_a[0] = b; new_b[2] = a
      a1 == IF a0.prev = a THEN [a0 EXCEPT !.prev = b] ELSE a0
      b1 == IF a0.prev = a THEN [b0 EXCEPT !.next = a] ELSE b0
      \* if new_b[0] == b: new_b[0] = a; new_a[2] = b
      b2 == IF b1.prev = b THEN [b1 EXCEPT !.prev = a] ELSE b1
      a2 == IF b1.prev = b THEN [a1 EXCEPT !.next = b] ELSE a1
  IN [a |-> a2, b |-> b2]

\* The neighbours of the new places are pointed at a and b.
swap_links(S, a, b, new_a, new_b) ==
  IF new_a.prev # nil /\ ~Has(S, new_a.prev) THEN Raise(S, "KeyError")
  ELSE LET S1 == setnext(S, new_a.prev, a)
  IN IF new_a.next # nil /\ ~Has(S1, new_a.next) THEN Raise(S1, "KeyError")
  ELSE LET S2 == setprev(S1, new_a.next, a)
  IN IF new_b.prev # nil /\ ~Has(S2, new_b.prev) THEN Raise(S2, "KeyError")
  ELSE LET S3 == setnext(S2, new_b.prev, b)
  IN IF new_b.next # nil /\ ~Has(S3, new_b.next) THEN Raise(S3, "KeyError")
  ELSE Ok(setprev(S3, new_b.next, b), <<>>)

\* swap_ends gone wrong: elif for if, so at most one of lh and lt is set.
swap_ends_elif(S, a, b, new_a, new_b) ==
  LET S5 == [S EXCEPT !.dict = Put(Put(S.dict, a, new_a), b, new_b)]
  IN IF new_a.prev = nil THEN [S5 EXCEPT !.lh = a]
     ELSE IF new_a.next = nil THEN [S5 EXCEPT !.lt = a]
     ELSE IF new_b.prev = nil THEN [S5 EXCEPT !.lh = b]
     ELSE IF new_b.next = nil THEN [S5 EXCEPT !.lt = b]
     ELSE S5

\* new_a and new_b are stored, and lh and lt follow a key that is now first or last.
swap_ends(S, a, b, new_a, new_b) ==
  LET S5 == [S EXCEPT !.dict = Put(Put(S.dict, a, new_a), b, new_b)]
      S6 == IF new_a.prev = nil THEN [S5 EXCEPT !.lh = a] ELSE S5
      S7 == IF new_a.next = nil THEN [S6 EXCEPT !.lt = a] ELSE S6
      S8 == IF new_b.prev = nil THEN [S7 EXCEPT !.lh = b] ELSE S7
  IN IF new_b.next = nil THEN [S8 EXCEPT !.lt = b] ELSE S8

\* swap that exchanges the values of the two entries and leaves their places.
swap_values(S, a, b) ==
  IF a = b THEN Raise(S, "ValueError")
  ELSE IF ~Has(S, a) THEN Raise(S, "KeyError")
  ELSE IF ~Has(S, b) THEN Raise(S, "KeyError")
  ELSE LET S1 == [S EXCEPT !.dict[a].val = S.dict[b].val]
       IN Ok([S1 EXCEPT !.dict[b].val = S.dict[a].val], <<>>)

\* swap that resolves its keys before it compares them.
swap_lookup_first(S, a, b) ==
  IF ~Has(S, a) THEN Raise(S, "KeyError")
  ELSE IF ~Has(S, b) THEN Raise(S, "KeyError")
  ELSE IF a = b THEN Raise(S, "ValueError")
  ELSE
    LET new == swap_new(S, a, b)
        l == swap_links(S, a, b, new.a, new.b)
    IN IF l.exc # "none" THEN l
       ELSE Ok(swap_ends(l.st, a, b, new.a, new.b), <<>>)

swap(S, a, b) ==
  IF a = b THEN Raise(S, "ValueError")
  ELSE IF ~Has(S, a) THEN Raise(S, "KeyError")
  ELSE IF ~Has(S, b) THEN Raise(S, "KeyError")
  ELSE
    LET new == swap_new(S, a, b)
        l == swap_links(S, a, b, new.a, new.b)
    IN IF l.exc # "none" THEN l
       ELSE Ok(swap_ends(l.st, a, b, new.a, new.b), <<>>)

\* list.index(x): the first position of x (from 0), -1 when x is not in the list.
index(s, x) ==
  IF \E i \in 1..Len(s) : s[i] = x
  THEN (CHOOSE i \in 1..Len(s) : s[i] = x /\ \A j \in 1..(i - 1) : s[j] # x) - 1
  ELSE -1

\* insertbefore gone wrong: lh is left alone when ref is the head.
insertbefore_nohead(S, ref, key, value) ==
  IF ref = key THEN Raise(S, "ValueError")
  ELSE
    LET ks == keys(S)
    IN IF ks.exc # "none" THEN Raise(S, ks.exc)
       ELSE
         LET i == index(ks.ret, ref)
         IN IF i < 0 THEN Raise(S, "KeyError")
            ELSE
              LET prevkey == IF i > 0 THEN ks.ret[i] ELSE nil
                  S1 == IF prevkey # nil THEN [S EXCEPT !.dict[prevkey].next = key]
                        ELSE S
                  newval == [prev |-> prevkey, val |-> value, next |-> ref]
                  S2 == [S1 EXCEPT !.dict[ref].prev = key]
              IN Ok([S2 EXCEPT !.dict = Put(S2.dict, key, newval)], <<>>)

insertbefore(S, ref, key, value) ==
  IF ref = key THEN Raise(S, "ValueError")
  ELSE
    LET ks == keys(S)
    IN IF ks.exc # "none" THEN Raise(S, ks.exc)
       ELSE
         LET i == index(ks.ret, ref)
         IN IF i < 0 THEN Raise(S, "KeyError")
            ELSE
              LET prevkey == IF i > 0 THEN ks.ret[i] ELSE nil
                  S1 == IF prevkey # nil THEN [S EXCEPT !.dict[prevkey].next = key]
                        ELSE [S EXCEPT !.lh = key]
                  newval == [prev |-> prevkey, val |-> value, next |-> ref]
                  S2 == [S1 EXCEPT !.dict[ref].prev = key]
              IN Ok([S2 EXCEPT !.dict = Put(S2.dict, key, newval)], <<>>)

\* insertafter that leaves the successor's prev naming ref.
insertafter_oldprev(S, ref, key, value) ==
  IF ref = key THEN Raise(S, "ValueError")
  ELSE
    LET ks == keys(S)
    IN IF ks.exc # "none" THEN Raise(S, ks.exc)
       ELSE
         LET i == index(ks.ret, ref)
         IN IF i < 0 THEN Raise(S, "KeyError")
            ELSE
              LET nextkey == IF i < Len(ks.ret) - 1 THEN ks.ret[i + 2] ELSE nil
                  S1 == IF nextkey # nil THEN S ELSE [S EXCEPT !.lt = key]
                  newval == [prev |-> ref, val |-> value, next |-> nextkey]
                  S2 == [S1 EXCEPT !.dict[ref].next = key]
              IN Ok([S2 EXCEPT !.dict = Put(S2.dict, key, newval)], <<>>)

insertafter(S, ref, key, value) ==
  IF ref = key THEN Raise(S, "ValueError")
  ELSE
    LET ks == keys(S)
    IN IF ks.exc # "none" THEN Raise(S, ks.exc)
       ELSE
         LET i == index(ks.ret, ref)
         IN IF i < 0 THEN Raise(S, "KeyError")
            ELSE
              LET nextkey == IF i < Len(ks.ret) - 1 THEN ks.ret[i + 2] ELSE nil
                  S1 == IF nextkey # nil THEN [S EXCEPT !.dict[nextkey].prev = key]
                        ELSE [S EXCEPT !.lt = key]
                  newval == [prev |-> ref, val |-> value, next |-> nextkey]
                  S2 == [S1 EXCEPT !.dict[ref].next = key]
              IN Ok([S2 EXCEPT !.dict = Put(S2.dict, key, newval)], <<>>)

insertfirst(S, key, value) ==
  LET f == firstkey(S)
      r == IF f.exc = "none" THEN insertbefore(S, f.ret[1], key, value) ELSE f
  IN IF r.exc = "KeyError" THEN setitem(r.st, key, value) ELSE r

\* insertlast that inserts on the wrong side of the tail.
insertlast_before(S, key, value) ==
  LET l == lastkey(S)
      r == IF l.exc = "none" THEN insertbefore(S, l.ret[1], key, value) ELSE l
  IN IF r.exc = "KeyError" THEN setitem(r.st, key, value) ELSE r

insertlast(S, key, value) ==
  LET l == lastkey(S)
      r == IF l.exc = "none" THEN insertafter(S, l.ret[1], key, value) ELSE l
  IN IF r.exc = "KeyError" THEN setitem(r.st, key, value) ELSE r

\* unlink gone wrong: the successor keeps pointing back at the key.
unlink_oneway(S, key) ==
  LET val == S.dict[key]
  IN IF val.prev # nil /\ ~Has(S, val.prev) THEN Raise(S, "KeyError")
     ELSE
       LET S1 == IF val.prev = nil THEN [S EXCEPT !.lh = val.next]
                 ELSE [S EXCEPT !.dict[val.prev].next = val.next]
           val1 == S1.dict[key]
       IN IF val1.next # nil /\ ~Has(S1, val1.next) THEN Raise(S1, "KeyError")
          ELSE Ok(IF val1.next = nil THEN [S1 EXCEPT !.lt = val1.prev] ELSE S1, <<>>)

\* The first half of movebefore and moveafter: key is unlinked from its
\* neighbours.  val is the list stored under key, read as it is at each statement.
unlink(S, key) ==
  LET val == S.dict[key]
  IN IF val.prev # nil /\ ~Has(S, val.prev) THEN Raise(S, "KeyError")
     ELSE
       LET S1 == IF val.prev = nil THEN [S EXCEPT !.lh = val.next]
                 ELSE [S EXCEPT !.dict[val.prev].next = val.next]
           val1 == S1.dict[key]
       IN IF val1.next # nil /\ ~Has(S1, val1.next) THEN Raise(S1, "KeyError")
          ELSE Ok(IF val1.next = nil THEN [S1 EXCEPT !.lt = val1.prev]
                  ELSE [S1 EXCEPT !.dict[val1.next].prev = val1.prev], <<>>)

\* movebefore that reads ref's predecessor before key is unlinked and relinks
\* through that copy of it, not through the list stored under ref.
movebefore_stale(S, ref, key) ==
  IF ref = key THEN Raise(S, "ValueError")
  ELSE IF ~Has(S, key) THEN Raise(S, "KeyError")
  ELSE IF ~Has(S, ref) THEN Raise(S, "KeyError")
  ELSE
    LET u == unlink(S, key)
        U == u.st
        p == S.dict[ref].prev
    IN IF u.exc # "none" THEN u
       ELSE IF p = nil
       THEN LET S1 == [U EXCEPT !.dict[key].prev = nil]
                S2 == [S1 EXCEPT !.dict[key].next = ref]
                S3 == [S2 EXCEPT !.dict[ref].prev = key]
            IN Ok([S3 EXCEPT !.lh = key], <<>>)
       ELSE IF ~Has(U, p) THEN Raise(U, "KeyError")
       ELSE LET S1 == [U EXCEPT !.dict[key].prev = p]
                S2 == [S1 EXCEPT !.dict[key].next = S1.dict[p].next]
                S3 == [S2 EXCEPT !.dict[ref].prev = key]
            IN Ok([S3 EXCEPT !.dict[p].next = key], <<>>)

\* movebefore gone wrong: ref is looked up only after key has been unlinked.
movebefore_lateref(S, ref, key) ==
  IF ref = key THEN Raise(S, "ValueError")
  ELSE IF ~Has(S, key) THEN Raise(S, "KeyError")
  ELSE
    LET u == unlink(S, key)
        U == u.st
        p == U.dict[ref].prev
    IN IF u.exc # "none" THEN u
       ELSE IF ~Has(U, ref) THEN Raise(U, "KeyError")
       ELSE IF p = nil
       THEN LET S1 == [U EXCEPT !.dict[key].prev = nil]
                S2 == [S1 EXCEPT !.dict[key].next = ref]
                S3 == [S2 EXCEPT !.dict[ref].prev = key]
            IN Ok([S3 EXCEPT !.lh = key], <<>>)
       ELSE IF ~Has(U, p) THEN Raise(U, "KeyError")
       ELSE LET S1 == [U EXCEPT !.dict[key].prev = U.dict[ref].prev]
                S2 == [S1 EXCEPT !.dict[key].next = S1.dict[p].next]
                S3 == [S2 EXCEPT !.dict[ref].prev = key]
            IN Ok([S3 EXCEPT !.dict[p].next = key], <<>>)

movebefore(S, ref, key) ==
  IF ref = key THEN Raise(S, "ValueError")
  ELSE IF ~Has(S, key) THEN Raise(S, "KeyError")
  ELSE IF ~Has(S, ref) THEN Raise(S, "KeyError")
  ELSE
    LET u == unlink(S, key)
        U == u.st
        p == U.dict[ref].prev
    IN IF u.exc # "none" THEN u
       ELSE IF p = nil
       THEN LET S1 == [U EXCEPT !.dict[key].prev = nil]
                S2 == [S1 EXCEPT !.dict[key].next = ref]
                S3 == [S2 EXCEPT !.dict[ref].prev = key]
            IN Ok([S3 EXCEPT !.lh = key], <<>>)
       ELSE IF ~Has(U, p) THEN Raise(U, "KeyError")
       ELSE LET S1 == [U EXCEPT !.dict[key].prev = U.dict[ref].prev]
                S2 == [S1 EXCEPT !.dict[key].next = S1.dict[p].next]
                S3 == [S2 EXCEPT !.dict[ref].prev = key]
            IN Ok([S3 EXCEPT !.dict[p].next = key], <<>>)

\* moveafter that leaves the prev of ref's old successor naming ref.
moveafter_oldprev(S, ref, key) ==
  IF ref = key THEN Raise(S, "ValueError")
  ELSE IF ~Has(S, key) THEN Raise(S, "KeyError")
  ELSE IF ~Has(S, ref) THEN Raise(S, "KeyError")
  ELSE
    LET u == unlink(S, key)
        U == u.st
        n == U.dict[ref].next
    IN IF u.exc # "none" THEN u
       ELSE IF n = nil
       THEN LET S1 == [U EXCEPT !.dict[key].prev = ref]
                S2 == [S1 EXCEPT !.dict[key].next = nil]
                S3 == [S2 EXCEPT !.dict[ref].next = key]
            IN Ok([S3 EXCEPT !.lt = key], <<>>)
       ELSE IF ~Has(U, n) THEN Raise(U, "KeyError")
       ELSE LET S1 == [U EXCEPT !.dict[key].prev = ref]
                S2 == [S1 EXCEPT !.dict[key].next = S1.dict[ref].next]
            IN Ok([S2 EXCEPT !.dict[ref].next = key], <<>>)

moveafter(S, ref, key) ==
  IF ref = key THEN Raise(S, "ValueError")
  ELSE IF ~Has(S, key) THEN Raise(S, "KeyError")
  ELSE IF ~Has(S, ref) THEN Raise(S, "KeyError")
  ELSE
    LET u == unlink(S, key)
        U == u.st
        n == U.dict[ref].next
    IN IF u.exc # "none" THEN u
       ELSE IF n = nil
       THEN LET S1 == [U EXCEPT !.dict[key].prev = ref]
                S2 == [S1 EXCEPT !.dict[key].next = nil]
                S3 == [S2 EXCEPT !.dict[ref].next = key]
            IN Ok([S3 EXCEPT !.lt = key], <<>>)
       ELSE IF ~Has(U, n) THEN Raise(U, "KeyError")
       ELSE LET S1 == [U EXCEPT !.dict[key].prev = ref]
                S2 == [S1 EXCEPT !.dict[key].next = S1.dict[ref].next]
                S3 == [S2 EXCEPT !.dict[ref].next = key]
            IN Ok([S3 EXCEPT !.dict[n].prev = key], <<>>)

\* movefirst gone wrong: the key is moved even when it is the first key.
movefirst_always(S, key) ==
  LET f == firstkey(S)
  IN IF f.exc # "none" THEN f ELSE movebefore(S, f.ret[1], key)

movefirst(S, key) ==
  LET f == firstkey(S)
  IN IF f.exc # "none" THEN f
     ELSE IF f.ret[1] # key THEN movebefore(S, f.ret[1], key)
     ELSE Ok(S, <<>>)

\* movelast that lets a key that is not in the map pass.
movelast_lenient(S, key) ==
  LET l == lastkey(S)
  IN IF l.exc # "none" THEN l
     ELSE IF ~Has(S, key) THEN Ok(S, <<>>)
     ELSE IF l.ret[1] # key THEN moveafter(S, l.ret[1], key)
     ELSE Ok(S, <<>>)

movelast(S, key) ==
  LET l == lastkey(S)
  IN IF l.exc # "none" THEN l
     ELSE IF l.ret[1] # key THEN moveafter(S, l.ret[1], key)
     ELSE Ok(S, <<>>)

-----------------------------------------------------------------------------
\* One call of one method.

NoArgs ==
  [a |-> nil, b |-> nil, value |-> nil, data |-> <<>>, kwds |-> <<>>, keyfn |-> "",
   reverse |-> FALSE, on |-> "o"]

\* A generator that has been made and has not run yet: calling iterkeys(),
\* itervalues() or iteritems() runs none of the method's code.
NewGen == [pc |-> "start", curr_key |-> nil, next_key |-> nil, out |-> <<>>]

\* The caller holds one generator of each kind, none of them started, and is
\* about to resume the first.
NotStarted == [turn |-> "keys", keys |-> NewGen, values |-> NewGen, items |-> NewGen]

\* The caller has not called copy() yet.
NoCopy == [made |-> FALSE, dict |-> EmptyDict, lh |-> nil, lt |-> nil]

\* No call is in progress: the caller is between two calls.
Idle == [op |-> "", args |-> NoArgs, pre |-> Empty, exc |-> "none", ret |-> <<>>]

\* The caller makes the call and the method runs to its end: to a return or to
\* a raise.  A call that hangs never gets there.
Call(name, args, r) ==
  /\ r.exc # "hang"
  /\ dict' = r.st.dict
  /\ lh' = r.st.lh
  /\ lt' = r.st.lt
  /\ last' = [op |-> name, args |-> args, pre |-> Obj, exc |-> r.exc, ret |-> r.ret]
  /\ UNCHANGED <<other, shared, inserted, iters>>

\* odict(data)
Init ==
  \E data \in DataSeqs :
    LET r == init(Empty, data)
    IN /\ dict = r.st.dict
       /\ lh = r.st.lh
       /\ lt = r.st.lt
       /\ last = [op |-> "__init__", args |-> [NoArgs EXCEPT !.data = data],
                  pre |-> Empty, exc |-> r.exc, ret |-> r.ret]
       /\ other = NoCopy
       /\ shared = {}
       /\ inserted = <<>>
       /\ iters = NotStarted

GetItem ==
  /\ last = Idle
  /\ \E key \in Keys :
       Call("__getitem__", [NoArgs EXCEPT !.a = key], getitem(Obj, key))

SetItem ==
  /\ last = Idle
  /\ \E key \in Keys, val \in Vals :
       Call("__setitem__", [NoArgs EXCEPT !.a = key, !.value = val],
            setitem(Obj, key, val))

DelItem ==
  /\ last = Idle
  /\ \E key \in Keys :
       Call("__delitem__", [NoArgs EXCEPT !.a = key], delitem(Obj, key))

Clear ==
  /\ last = Idle
  /\ Call("clear", NoArgs, clear(Obj))

Update ==
  /\ last = Idle
  /\ \E data \in DataSeqs :
       Call("update", [NoArgs EXCEPT !.data = data], update(Obj, data))

SetDefault ==
  /\ last = Idle
  /\ \E key \in Keys, default \in Vals :
       Call("setdefault", [NoArgs EXCEPT !.a = key, !.value = default],
            setdefault(Obj, key, default))

\* value = nil: pop(key), no default given.
Pop ==
  /\ last = Idle
  /\ \E key \in Keys, default \in Vals \cup {nil} :
       Call("pop", [NoArgs EXCEPT !.a = key, !.value = default],
            pop(Obj, key, default))

PopItem ==
  /\ last = Idle
  /\ Call("popitem", NoArgs, popitem(Obj))

Sort ==
  /\ last = Idle
  /\ \E keyfn \in {"value", "key"}, reverse \in BOOLEAN :
       Call("sort", [NoArgs EXCEPT !.keyfn = keyfn, !.reverse = reverse],
            sort(Obj, keyfn, reverse))

FirstKey ==
  /\ last = Idle
  /\ Call("firstkey", NoArgs, firstkey(Obj))

LastKey ==
  /\ last = Idle
  /\ Call("lastkey", NoArgs, lastkey(Obj))

NextKey ==
  /\ last = Idle
  /\ \E key \in Keys :
       Call("next_key", [NoArgs EXCEPT !.a = key], next_key(Obj, key))

PrevKey ==
  /\ last = Idle
  /\ \E key \in Keys :
       Call("prev_key", [NoArgs EXCEPT !.a = key], prev_key(Obj, key))

Swap ==
  /\ last = Idle
  /\ \E a \in Keys, b \in Keys :
       Call("swap", [NoArgs EXCEPT !.a = a, !.b = b], swap(Obj, a, b))

MoveBefore ==
  /\ last = Idle
  /\ \E ref \in Keys, key \in Keys :
       Call("movebefore", [NoArgs EXCEPT !.a = ref, !.b = key],
            movebefore(Obj, ref, key))

MoveAfter ==
  /\ last = Idle
  /\ \E ref \in Keys, key \in Keys :
       Call("moveafter", [NoArgs EXCEPT !.a = ref, !.b = key],
            moveafter(Obj, ref, key))

MoveFirst ==
  /\ last = Idle
  /\ \E key \in Keys :
       Call("movefirst", [NoArgs EXCEPT !.a = key], movefirst(Obj, key))

MoveLast ==
  /\ last = Idle
  /\ \E key \in Keys :
       Call("movelast", [NoArgs EXCEPT !.a = key], movelast(Obj, key))

\* The insert methods and alter_key take a key that is to become a key of the
\* map.  A call is within that contract when this key is not yet in the map, or
\* when the call raises; the remaining calls, which go through with a key that is
\* already stored, are the ...Stored actions of SpecAny.
InContract(S, key, r) == ~Has(S, key) \/ r.exc # "none"

InsertBeforeCall(ref, key, value) ==
  Call("insertbefore", [NoArgs EXCEPT !.a = ref, !.b = key, !.value = value],
       insertbefore(Obj, ref, key, value))

InsertAfterCall(ref, key, value) ==
  Call("insertafter", [NoArgs EXCEPT !.a = ref, !.b = key, !.value = value],
       insertafter(Obj, ref, key, value))

InsertFirstCall(key, value) ==
  Call("insertfirst", [NoArgs EXCEPT !.a = key, !.value = value],
       insertfirst(Obj, key, value))

InsertLastCall(key, value) ==
  Call("insertlast", [NoArgs EXCEPT !.a = key, !.value = value],
       insertlast(Obj, key, value))

AlterKeyCall(old_key, new_key) ==
  Call("alter_key", [NoArgs EXCEPT !.a = old_key, !.b = new_key],
       alter_key(Obj, old_key, new_key))

InsertBefore ==
  /\ last = Idle
  /\ \E ref \in Keys, key \in Keys, value \in Vals :
       /\ InContract(Obj, key, insertbefore(Obj, ref, key, value))
       /\ InsertBeforeCall(ref, key, value)

InsertAfter ==
  /\ last = Idle
  /\ \E ref \in Keys, key \in Keys, value \in Vals :
       /\ InContract(Obj, key, insertafter(Obj, ref, key, value))
       /\ InsertAfterCall(ref, key, value)

InsertFirst ==
  /\ last = Idle
  /\ \E key \in Keys, value \in Vals :
       /\ InContract(Obj, key, insertfirst(Obj, key, value))
       /\ InsertFirstCall(key, value)

InsertLast ==
  /\ last = Idle
  /\ \E key \in Keys, value \in Vals :
       /\ InContract(Obj, key, insertlast(Obj, key, value))
       /\ InsertLastCall(key, value)

AlterKey ==
  /\ last = Idle
  /\ \E old_key \in Keys, new_key \in Keys :
       /\ InContract(Obj, new_key, alter_key(Obj, old_key, new_key))
       /\ AlterKeyCall(old_key, new_key)

InsertBeforeStored ==
  /\ last = Idle
  /\ \E ref \in Keys, key \in Keys, value \in Vals :
       /\ ~InContract(Obj, key, insertbefore(Obj, ref, key, value))
       /\ InsertBeforeCall(ref, key, value)

InsertAfterStored ==
  /\ last = Idle
  /\ \E ref \in Keys, key \in Keys, value \in Vals :
       /\ ~InContract(Obj, key, insertafter(Obj, ref, key, value))
       /\ InsertAfterCall(ref, key, value)

InsertFirstStored ==
  /\ last = Idle
  /\ \E key \in Keys, value \in Vals :
       /\ ~InContract(Obj, key, insertfirst(Obj, key, value))
       /\ InsertFirstCall(key, value)

InsertLastStored ==
  /\ last = Idle
  /\ \E key \in Keys, value \in Vals :
       /\ ~InContract(Obj, key, insertlast(Obj, key, value))
       /\ InsertLastCall(key, value)

AlterKeyStored ==
  /\ last = Idle
  /\ \E old_key \in Keys, new_key \in Keys :
       /\ ~InContract(Obj, new_key, alter_key(Obj, old_key, new_key))
       /\ AlterKeyCall(old_key, new_key)

\* The caller has taken the outcome of the call and goes on to its next call.
Return ==
  /\ last # Idle
  /\ last' = Idle
  /\ UNCHANGED <<dict, lh, lt, other, shared, inserted, iters>>

Next ==
  \/ Return
  \/ GetItem
  \/ SetItem
  \/ DelItem
  \/ Clear
  \/ Update
  \/ SetDefault
  \/ Pop
  \/ PopItem
  \/ Sort
  \/ FirstKey
  \/ LastKey
  \/ NextKey
  \/ PrevKey
  \/ Swap
  \/ MoveBefore
  \/ MoveAfter
  \/ MoveFirst
  \/ MoveLast
  \/ InsertBefore
  \/ InsertAfter
  \/ InsertFirst
  \/ InsertLast
  \/ AlterKey

\* Every call within the contract of the methods.
Spec == Init /\ [][Next]_vars

\* The links are sound: both walks end, the forward walk visits exactly the
\* stored keys and the backward walk is its reverse.
Sound(S) ==
  /\ keys(S).exc = "none"
  /\ rkeys(S).exc = "none"
  /\ {keys(S).ret[i] : i \in 1..Len(keys(S).ret)} = DOMAIN S.dict
  /\ Len(keys(S).ret) = Cardinality(DOMAIN S.dict)
  /\ rkeys(S).ret = reversed(keys(S).ret)

\* Every call the methods accept, the ones outside the contract included, for
\* as long as the links are sound: a caller whose map has lost its links makes
\* no further call.
NextAny ==
  \/ Return
  \/ last = Idle /\ Sound(Obj) /\ Next
  \/ last = Idle /\ Sound(Obj) /\ InsertBeforeStored
  \/ last = Idle /\ Sound(Obj) /\ InsertAfterStored
  \/ last = Idle /\ Sound(Obj) /\ InsertFirstStored
  \/ last = Idle /\ Sound(Obj) /\ InsertLastStored
  \/ last = Idle /\ Sound(Obj) /\ AlterKeyStored

SpecAny == Init /\ [][NextAny]_vars

\* keys() returns and lists every stored key once: what a caller who iterates
\* over the map sees is in order, whatever the prev links are.
ForwardSound(S) ==
  /\ keys(S).exc = "none"
  /\ {keys(S).ret[i] : i \in 1..Len(keys(S).ret)} = DOMAIN S.dict
  /\ Len(keys(S).ret) = Cardinality(DOMAIN S.dict)

\* Every call the methods accept for as long as the links are sound, and the
\* calls that only reorder for as long as keys() lists the stored keys: a map
\* whose backward links alone are broken stays in use.
NextForward ==
  \/ NextAny
  \/ last = Idle /\ ForwardSound(Obj) /\ Swap
  \/ last = Idle /\ ForwardSound(Obj) /\ MoveBefore
  \/ last = Idle /\ ForwardSound(Obj) /\ MoveAfter
  \/ last = Idle /\ ForwardSound(Obj) /\ MoveFirst
  \/ last = Idle /\ ForwardSound(Obj) /\ MoveLast

SpecForward == Init /\ [][NextForward]_vars
-----------------------------------------------------------------------------
\* The methods that change the links, on longer maps: odict(data) for any
\* sequence data of distinct keys of LinkKeys, and then any calls, within the
\* contract, of swap, the move and insert methods, __setitem__, __delitem__ and
\* sort.
\* A key always comes with the value valof gives it.

valof(k) == (k % MaxVal) + 1

\* The sequences of at most n distinct elements of S.
RECURSIVE DistinctSeqs(_, _)
DistinctSeqs(S, n) ==
  IF n = 0 THEN {<<>>}
  ELSE LET shorter == DistinctSeqs(S, n - 1)
           longest == {t \in shorter : Len(t) = n - 1}
           more(t) == {Append(t, x) : x \in S \ {t[i] : i \in 1..Len(t)}}
       IN shorter \cup UNION {more(t) : t \in longest}

LinksInit ==
  \E ks \in DistinctSeqs(LinkKeys, MaxLinkKeys) :
    LET data == [i \in 1..Len(ks) |-> <<ks[i], valof(ks[i])>>]
        r == init(Empty, data)
    IN /\ dict = r.st.dict
       /\ lh = r.st.lh
       /\ lt = r.st.lt
       /\ last = [op |-> "__init__", args |-> [NoArgs EXCEPT !.data = data],
                  pre |-> Empty, exc |-> r.exc, ret |-> r.ret]
       /\ other = NoCopy
       /\ shared = {}
       /\ inserted = <<>>
       /\ iters = NotStarted

LinksSetItem ==
  /\ last = Idle
  /\ \E key \in LinkKeys :
       Call("__setitem__", [NoArgs EXCEPT !.a = key, !.value = valof(key)],
            setitem(Obj, key, valof(key)))

LinksDelItem ==
  /\ last = Idle
  /\ \E key \in LinkKeys :
       Call("__delitem__", [NoArgs EXCEPT !.a = key], delitem(Obj, key))

LinksSwap ==
  /\ last = Idle
  /\ \E a \in LinkKeys, b \in LinkKeys :
       Call("swap", [NoArgs EXCEPT !.a = a, !.b = b], swap(Obj, a, b))

LinksMoveBefore ==
  /\ last = Idle
  /\ \E ref \in LinkKeys, key \in LinkKeys :
       Call("movebefore", [NoArgs EXCEPT !.a = ref, !.b = key],
            movebefore(Obj, ref, key))

LinksMoveAfter ==
  /\ last = Idle
  /\ \E ref \in LinkKeys, key \in LinkKeys :
       Call("moveafter", [NoArgs EXCEPT !.a = ref, !.b = key],
            moveafter(Obj, ref, key))

LinksMoveFirst ==
  /\ last = Idle
  /\ \E key \in LinkKeys :
       Call("movefirst", [NoArgs EXCEPT !.a = key], movefirst(Obj, key))

LinksMoveLast ==
  /\ last = Idle
  /\ \E key \in LinkKeys :
       Call("movelast", [NoArgs EXCEPT !.a = key], movelast(Obj, key))

LinksInsertBefore ==
  /\ last = Idle
  /\ \E ref \in LinkKeys, key \in LinkKeys :
       /\ InContract(Obj, key, insertbefore(Obj, ref, key, valof(key)))
       /\ InsertBeforeCall(ref, key, valof(key))

LinksInsertAfter ==
  /\ last = Idle
  /\ \E ref \in LinkKeys, key \in LinkKeys :
       /\ InContract(Obj, key, insertafter(Obj, ref, key, valof(key)))
       /\ InsertAfterCall(ref, key, valof(key))

LinksInsertFirst ==
  /\ last = Idle
  /\ \E key \in LinkKeys :
       /\ InContract(Obj, key, insertfirst(Obj, key, valof(key)))
       /\ InsertFirstCall(key, valof(key))

LinksInsertLast ==
  /\ last = Idle
  /\ \E key \in LinkKeys :
       /\ InContract(Obj, key, insertlast(Obj, key, valof(key)))
       /\ InsertLastCall(key, valof(key))

LinksSort ==
  /\ last = Idle
  /\ \E keyfn \in {"value", "key"}, reverse \in BOOLEAN :
       Call("sort", [NoArgs EXCEPT !.keyfn = keyfn, !.reverse = reverse],
            sort(Obj, keyfn, reverse))

LinksNext ==
  \/ Return
  \/ LinksSetItem
  \/ LinksDelItem
  \/ LinksSwap
  \/ LinksMoveBefore
  \/ LinksMoveAfter
  \/ LinksMoveFirst
  \/ LinksMoveLast
  \/ LinksInsertBefore
  \/ LinksInsertAfter
  \/ LinksInsertFirst
  \/ LinksInsertLast
  \/ LinksSort

SpecLinks == LinksInit /\ [][LinksNext]_vars

-----------------------------------------------------------------------------
\* Renaming keys: odict(data) for any sequence data of distinct keys of
\* RenameKeys with any values, and then any calls, within the contract, of
\* alter_key and __delitem__.

RenameInit ==
  \E ks \in DistinctSeqs(RenameKeys, MaxRenameKeys), vs \in [RenameKeys -> Vals] :
    LET data == [i \in 1..Len(ks) |-> <<ks[i], vs[ks[i]]>>]
        r == init(Empty, data)
    IN /\ dict = r.st.dict
       /\ lh = r.st.lh
       /\ lt = r.st.lt
       /\ last = [op |-> "__init__", args |-> [NoArgs EXCEPT !.data = data],
                  pre |-> Empty, exc |-> r.exc, ret |-> r.ret]
       /\ other = NoCopy
       /\ shared = {}
       /\ inserted = <<>>
       /\ iters = NotStarted

RenameAlterKey ==
  /\ last = Idle
  /\ \E old_key \in RenameKeys, new_key \in RenameKeys :
       /\ InContract(Obj, new_key, alter_key(Obj, old_key, new_key))
       /\ AlterKeyCall(old_key, new_key)

RenameDelItem ==
  /\ last = Idle
  /\ \E key \in RenameKeys :
       Call("__delitem__", [NoArgs EXCEPT !.a = key], delitem(Obj, key))

RenameNext ==
  \/ Return
  \/ RenameAlterKey
  \/ RenameDelItem

SpecRename == RenameInit /\ [][RenameNext]_vars

-----------------------------------------------------------------------------
\* Sequences of pairs: odict(data) for any sequence data of at most MaxPairs
\* pairs over PairKeys, keys repeated or not, and then any calls of update and
\* of the constructor, with and without keyword arguments.

PairsInit ==
  \E data \in PairSeqs :
    LET r == init_kwds(Empty, data, <<>>)
    IN /\ dict = r.st.dict
       /\ lh = r.st.lh
       /\ lt = r.st.lt
       /\ last = [op |-> "__init__", args |-> [NoArgs EXCEPT !.data = data],
                  pre |-> Empty, exc |-> r.exc, ret |-> r.ret]
       /\ other = NoCopy
       /\ shared = {}
       /\ inserted = <<>>
       /\ iters = NotStarted

PairsUpdate ==
  /\ last = Idle
  /\ \E data \in PairSeqs :
       Call("update", [NoArgs EXCEPT !.data = data], update_kwds(Obj, data, <<>>))

\* update(data, k=v)
PairsUpdateKwds ==
  /\ last = Idle
  /\ \E data \in SeqsUpTo(PairKeys \X PairVals, 1), kwds \in Kwds \ {<<>>} :
       Call("update", [NoArgs EXCEPT !.data = data, !.kwds = kwds],
            update_kwds(Obj, data, kwds))

\* o = odict(data, **kwds): the name o is bound to the new map; when the
\* constructor raises, o stays bound to the old one.
PairsConstruct ==
  /\ last = Idle
  /\ \E data \in SeqsUpTo(PairKeys \X PairVals, 1), kwds \in Kwds :
       LET r == init_kwds(Empty, data, kwds)
       IN Call("__init__", [NoArgs EXCEPT !.data = data, !.kwds = kwds],
               IF r.exc = "none" THEN r ELSE Raise(Obj, r.exc))

PairsNext ==
  \/ Return
  \/ PairsUpdate
  \/ PairsUpdateKwds
  \/ PairsConstruct

SpecPairs == PairsInit /\ [][PairsNext]_vars

\* ---------------------------------------------------------------------------
\* A map and its copy: the caller copies the map and then goes on calling the
\* structural methods of either of the two.
\* ---------------------------------------------------------------------------

CopyKeys == 1..MaxCopyKeys

\* The copy as a map of its own.
Twin == [dict |-> other.dict, lh |-> other.lh, lt |-> other.lt]

\* The maps the caller holds: "o" the original, "c" its copy.
Holders == IF other.made THEN {"o", "c"} ELSE {"o"}

Map(on) == IF on = "o" THEN Obj ELSE Twin

\* The map that the call was not made on, after a call that took the map it
\* was made on from A0 to A1: an entry list held by both maps is one object,
\* so what the call wrote into it in place is read through the other map too.
\* fresh are the keys that the call bound to a new list.
Through(B, A0, A1, fresh) ==
  [B EXCEPT !.dict =
     [k \in DOMAIN B.dict |->
        IF /\ k \in shared \ fresh
           /\ k \in DOMAIN A0.dict
           /\ k \in DOMAIN A1.dict
           /\ A1.dict[k] # A0.dict[k]
        THEN A1.dict[k]
        ELSE B.dict[k]]]

\* A call of a method on one of the two maps, run to its return or raise.
CallOn(on, name, args, r, fresh) ==
  /\ r.exc # "hang"
  /\ LET A0 == Map(on)
         A1 == r.st
         B1 == Through(Map(IF on = "o" THEN "c" ELSE "o"), A0, A1, fresh)
         O1 == IF on = "o" THEN A1 ELSE B1
         C1 == IF on = "o" THEN B1 ELSE A1
     IN /\ dict' = O1.dict
        /\ lh' = O1.lh
        /\ lt' = O1.lt
        /\ other' = IF other.made
                    THEN [made |-> TRUE, dict |-> C1.dict, lh |-> C1.lh, lt |-> C1.lt]
                    ELSE other
        /\ shared' = (shared \cap DOMAIN A1.dict) \ fresh
        /\ UNCHANGED <<inserted, iters>>
        /\ last' = [op |-> name, args |-> [args EXCEPT !.on = on], pre |-> A0,
                    exc |-> r.exc, ret |-> r.ret]

CopyInit ==
  \E ks \in DistinctSeqs(CopyKeys, MaxCopyKeys) :
    LET data == [i \in 1..Len(ks) |-> <<ks[i], valof(ks[i])>>]
        r == init(Empty, data)
    IN /\ dict = r.st.dict
       /\ lh = r.st.lh
       /\ lt = r.st.lt
       /\ last = [op |-> "__init__", args |-> [NoArgs EXCEPT !.data = data],
                  pre |-> Empty, exc |-> r.exc, ret |-> r.ret]
       /\ other = NoCopy
       /\ shared = {}
       /\ inserted = <<>>
       /\ iters = NotStarted

\* c = o.copy()
CopyCopy ==
  /\ last = Idle
  /\ LET r == copy(Obj)
     IN /\ r.exc = "none"
        /\ dict' = r.st.dict
        /\ lh' = r.st.lh
        /\ lt' = r.st.lt
        /\ other' = [made |-> TRUE, dict |-> r.ret.dict, lh |-> r.ret.lh,
                     lt |-> r.ret.lt]
        /\ shared' = r.ret.shared
        /\ UNCHANGED <<inserted, iters>>
        /\ last' = [op |-> "copy", args |-> NoArgs, pre |-> Obj, exc |-> r.exc,
                    ret |-> <<>>]

CopySetItem ==
  /\ last = Idle
  /\ \E on \in Holders, key \in CopyKeys :
       CallOn(on, "__setitem__", [NoArgs EXCEPT !.a = key, !.value = valof(key)],
              setitem(Map(on), key, valof(key)),
              IF Has(Map(on), key) THEN {} ELSE {key})

CopyDelItem ==
  /\ last = Idle
  /\ \E on \in Holders, key \in CopyKeys :
       CallOn(on, "__delitem__", [NoArgs EXCEPT !.a = key], delitem(Map(on), key), {})

CopySwap ==
  /\ last = Idle
  /\ \E on \in Holders, a \in CopyKeys, b \in CopyKeys :
       LET r == swap(Map(on), a, b)
       IN CallOn(on, "swap", [NoArgs EXCEPT !.a = a, !.b = b], r,
                 IF r.exc = "none" THEN {a, b} ELSE {})

CopyMoveBefore ==
  /\ last = Idle
  /\ \E on \in Holders, ref \in CopyKeys, key \in CopyKeys :
       CallOn(on, "movebefore", [NoArgs EXCEPT !.a = ref, !.b = key],
              movebefore(Map(on), ref, key), {})

CopyMoveAfter ==
  /\ last = Idle
  /\ \E on \in Holders, ref \in CopyKeys, key \in CopyKeys :
       CallOn(on, "moveafter", [NoArgs EXCEPT !.a = ref, !.b = key],
              moveafter(Map(on), ref, key), {})

CopyMoveFirst ==
  /\ last = Idle
  /\ \E on \in Holders, key \in CopyKeys :
       CallOn(on, "movefirst", [NoArgs EXCEPT !.a = key], movefirst(Map(on), key), {})

CopyMoveLast ==
  /\ last = Idle
  /\ \E on \in Holders, key \in CopyKeys :
       CallOn(on, "movelast", [NoArgs EXCEPT !.a = key], movelast(Map(on), key), {})

CopyInsertBefore ==
  /\ last = Idle
  /\ \E on \in Holders, ref \in CopyKeys, key \in CopyKeys :
       LET r == insertbefore(Map(on), ref, key, valof(key))
       IN /\ InContract(Map(on), key, r)
          /\ CallOn(on, "insertbefore",
                    [NoArgs EXCEPT !.a = ref, !.b = key, !.value = valof(key)], r,
                    IF r.exc = "none" THEN {key} ELSE {})

CopyInsertAfter ==
  /\ last = Idle
  /\ \E on \in Holders, ref \in CopyKeys, key \in CopyKeys :
       LET r == insertafter(Map(on), ref, key, valof(key))
       IN /\ InContract(Map(on), key, r)
          /\ CallOn(on, "insertafter",
                    [NoArgs EXCEPT !.a = ref, !.b = key, !.value = valof(key)], r,
                    IF r.exc = "none" THEN {key} ELSE {})

CopyInsertFirst ==
  /\ last = Idle
  /\ \E on \in Holders, key \in CopyKeys :
       LET r == insertfirst(Map(on), key, valof(key))
       IN /\ InContract(Map(on), key, r)
          /\ CallOn(on, "insertfirst",
                    [NoArgs EXCEPT !.a = key, !.value = valof(key)], r,
                    IF r.exc = "none" THEN {key} ELSE {})

CopyInsertLast ==
  /\ last = Idle
  /\ \E on \in Holders, key \in CopyKeys :
       LET r == insertlast(Map(on), key, valof(key))
       IN /\ InContract(Map(on), key, r)
          /\ CallOn(on, "insertlast",
                    [NoArgs EXCEPT !.a = key, !.value = valof(key)], r,
                    IF r.exc = "none" THEN {key} ELSE {})

CopySort ==
  /\ last = Idle
  /\ \E on \in Holders, keyfn \in {"value", "key"}, reverse \in BOOLEAN :
       CallOn(on, "sort", [NoArgs EXCEPT !.keyfn = keyfn, !.reverse = reverse],
              sort(Map(on), keyfn, reverse), DOMAIN Map(on).dict)

CopyClear ==
  /\ last = Idle
  /\ \E on \in Holders :
       CallOn(on, "clear", NoArgs, clear(Map(on)), DOMAIN Map(on).dict)

CopyNext ==
  \/ Return
  \/ CopyCopy
  \/ CopySetItem
  \/ CopyDelItem
  \/ CopySwap
  \/ CopyMoveBefore
  \/ CopyMoveAfter
  \/ CopyMoveFirst
  \/ CopyMoveLast
  \/ CopyInsertBefore
  \/ CopyInsertAfter
  \/ CopyInsertFirst
  \/ CopyInsertLast
  \/ CopySort
  \/ CopyClear

SpecCopy == CopyInit /\ [][CopyNext]_vars

\* ---------------------------------------------------------------------------
\* A caller that starts from odict() and only puts keys in and takes keys out
\* (set, setdefault, update, delete, pop, popitem), and keeps a record of its
\* own of what it has put in and not taken out since.
\* ---------------------------------------------------------------------------

InsertData == SeqsUpTo(Keys \X PairVals, MaxInsertPairs)

\* The caller's record after it put k in: a key that is in stays where it is.
PutIn(seq, k) == IF \E i \in 1..Len(seq) : seq[i] = k THEN seq ELSE Append(seq, k)

\* The caller's record after it took k out.
TakeOut(seq, k) == SelectSeq(seq, LAMBDA e : e # k)

RECURSIVE PutAllIn(_, _)
PutAllIn(seq, data) ==
  IF data = <<>> THEN seq ELSE PutAllIn(PutIn(seq, Head(data)[1]), Tail(data))

\* A call run to its return or raise, and the caller's record after it.
Recorded(name, args, r, seq) ==
  /\ r.exc # "hang"
  /\ dict' = r.st.dict
  /\ lh' = r.st.lh
  /\ lt' = r.st.lt
  /\ last' = [op |-> name, args |-> args, pre |-> Obj, exc |-> r.exc, ret |-> r.ret]
  /\ inserted' = seq
  /\ UNCHANGED <<other, shared, iters>>

\* odict()
InsertionInit ==
  LET r == init(Empty, <<>>)
  IN /\ dict = r.st.dict
     /\ lh = r.st.lh
     /\ lt = r.st.lt
     /\ last = [op |-> "__init__", args |-> NoArgs, pre |-> Empty, exc |-> r.exc,
                ret |-> r.ret]
     /\ other = NoCopy
     /\ shared = {}
     /\ inserted = <<>>
     /\ iters = NotStarted

InsertionSetItem ==
  /\ last = Idle
  /\ \E key \in Keys, val \in PairVals :
       Recorded("__setitem__", [NoArgs EXCEPT !.a = key, !.value = val],
                setitem(Obj, key, val), PutIn(inserted, key))

InsertionSetDefault ==
  /\ last = Idle
  /\ \E key \in Keys, default \in PairVals :
       Recorded("setdefault", [NoArgs EXCEPT !.a = key, !.value = default],
                setdefault(Obj, key, default), PutIn(inserted, key))

InsertionUpdate ==
  /\ last = Idle
  /\ \E data \in InsertData :
       Recorded("update", [NoArgs EXCEPT !.data = data], update(Obj, data),
                PutAllIn(inserted, data))

InsertionDelItem ==
  /\ last = Idle
  /\ \E key \in Keys :
       Recorded("__delitem__", [NoArgs EXCEPT !.a = key], delitem(Obj, key),
                TakeOut(inserted, key))

InsertionPop ==
  /\ last = Idle
  /\ \E key \in Keys, default \in PairVals \cup {nil} :
       Recorded("pop", [NoArgs EXCEPT !.a = key, !.value = default],
                pop(Obj, key, default), TakeOut(inserted, key))

\* The caller strikes the key that popitem handed back.
InsertionPopItem ==
  /\ last = Idle
  /\ LET r == popitem(Obj)
     IN Recorded("popitem", NoArgs, r,
                 IF r.exc = "none" THEN TakeOut(inserted, r.ret[1]) ELSE inserted)

InsertionNext ==
  \/ Return
  \/ InsertionSetItem
  \/ InsertionSetDefault
  \/ InsertionUpdate
  \/ InsertionDelItem
  \/ InsertionPop
  \/ InsertionPopItem

SpecInsertion == InsertionInit /\ [][InsertionNext]_vars

\* ---------------------------------------------------------------------------
\* Generators.  iterkeys (__iter__), itervalues and iteritems are generator
\* functions: next(g) runs the code from where g is suspended to the next yield
\* or to the end of the loop, on the map as it is at that time.
\* ---------------------------------------------------------------------------

IterKeys == 1..MaxIterKeys

\* The generator ran off the end of its loop, now or at an earlier next(g).
Stop(g) == [gen |-> [g EXCEPT !.pc = "done"], exc |-> "StopIteration", ret |-> <<>>]

\* A lookup in the generator raised: the exception ends the generator.
Broken(g) == [gen |-> [g EXCEPT !.pc = "done"], exc |-> "KeyError", ret |-> <<>>]

\* yield x
Yield(g, x) ==
  [gen |-> [g EXCEPT !.pc = "yield", !.out = Append(@, x)], exc |-> "none", ret |-> <<x>>]

\* __iter__: the link to the next key is read after the yield, when the
\* generator is resumed.
\*   curr_key = lh
\*   while curr_key != _nil:
\*       yield curr_key
\*       curr_key = self[curr_key][2]
next_iterkeys(S, g) ==
  IF g.pc = "done" THEN Stop(g)
  ELSE IF g.pc = "yield" /\ ~Has(S, g.curr_key) THEN Broken(g)
  ELSE LET curr_key == IF g.pc = "start" THEN S.lh ELSE S.dict[g.curr_key].next
       IN IF curr_key = nil THEN Stop(g)
          ELSE Yield([g EXCEPT !.curr_key = curr_key], curr_key)

\* itervalues: the link to the next key is read before the yield.
\*   curr_key = lh
\*   while curr_key != _nil:
\*       _, val, curr_key = self[curr_key]
\*       yield val
next_itervalues(S, g) ==
  IF g.pc = "done" THEN Stop(g)
  ELSE LET curr_key == IF g.pc = "start" THEN S.lh ELSE g.curr_key
       IN IF curr_key = nil THEN Stop(g)
          ELSE IF ~Has(S, curr_key) THEN Broken(g)
          ELSE Yield([g EXCEPT !.curr_key = S.dict[curr_key].next],
                     S.dict[curr_key].val)

\* iteritems: the link to the next key is read before the yield, into next_key.
\*   curr_key = lh
\*   while curr_key != _nil:
\*       _, val, next_key = self[curr_key]
\*       yield curr_key, val
\*       curr_key = next_key
next_iteritems(S, g) ==
  IF g.pc = "done" THEN Stop(g)
  ELSE LET curr_key == IF g.pc = "start" THEN S.lh ELSE g.next_key
       IN IF curr_key = nil THEN Stop(g)
          ELSE IF ~Has(S, curr_key) THEN Broken(g)
          ELSE Yield([g EXCEPT !.curr_key = curr_key,
                               !.next_key = S.dict[curr_key].next],
                     <<curr_key, S.dict[curr_key].val>>)

\* The caller holds the three generators on one map, resumes them in turn, keys
\* then values then items, and sets keys between two rounds.
IterInit ==
  \E ks \in DistinctSeqs(IterKeys, MaxIterKeys) :
    LET data == [i \in 1..Len(ks) |-> <<ks[i], valof(ks[i])>>]
        r == init(Empty, data)
    IN /\ dict = r.st.dict
       /\ lh = r.st.lh
       /\ lt = r.st.lt
       /\ last = [op |-> "__init__", args |-> [NoArgs EXCEPT !.data = data],
                  pre |-> Empty, exc |-> r.exc, ret |-> r.ret]
       /\ other = NoCopy
       /\ shared = {}
       /\ inserted = <<>>
       /\ iters = NotStarted

\* next(g) for the generator whose turn it is.
Resume(turn, then, r) ==
  /\ iters.turn = turn
  /\ iters' = [iters EXCEPT ![turn] = r.gen, !.turn = then]
  /\ last' = [op |-> "next", args |-> [NoArgs EXCEPT !.on = turn], pre |-> Obj,
              exc |-> r.exc, ret |-> r.ret]
  /\ UNCHANGED <<dict, lh, lt, other, shared, inserted>>

IterNextKeys ==
  /\ last = Idle
  /\ Resume("keys", "values", next_iterkeys(Obj, iters.keys))

IterNextValues ==
  /\ last = Idle
  /\ Resume("values", "items", next_itervalues(Obj, iters.values))

IterNextItems ==
  /\ last = Idle
  /\ Resume("items", "keys", next_iteritems(Obj, iters.items))

IterSetItem ==
  /\ last = Idle
  /\ iters.turn = "keys"
  /\ \E key \in IterKeys :
       Call("__setitem__", [NoArgs EXCEPT !.a = key, !.value = valof(key)],
            setitem(Obj, key, valof(key)))

IterNext ==
  \/ Return
  \/ IterNextKeys
  \/ IterNextValues
  \/ IterNextItems
  \/ IterSetItem

SpecIter == IterInit /\ [][IterNext]_vars

-----------------------------------------------------------------------------
\* What the claims speak of.

Range(s) == {s[i] : i \in 1..Len(s)}

\* s without x.
Without(s, x) == SelectSeq(s, LAMBDA e : e # x)

\* The position of x in s, 0 when x is not in s.
Pos(s, x) == IF x \in Range(s) THEN CHOOSE i \in 1..Len(s) : s[i] = x ELSE 0

\* s with x put in after position i.
PutAfter(s, i, x) == SubSeq(s, 1, i) \o <<x>> \o SubSeq(s, i + 1, Len(s))

\* s with a and b exchanged.
Exchanged(s, a, b) ==
  [i \in 1..Len(s) |-> IF s[i] = a THEN b ELSE IF s[i] = b THEN a ELSE s[i]]

\* The call that has just ended.
Ran(name) == last.op = name
Returned(name) == last.op = name /\ last.exc = "none"
Pre == last.pre
Post == Obj

\* keys() and rkeys() as lists, whatever the walk's outcome.
K(S) == keys(S).ret
RK(S) == rkeys(S).ret

\* The call that has just ended made the map what it is: the constructor, or a
\* call that changed the map.  Every map the program reaches is the map of such
\* a state, since the other calls and the caller between calls leave the map
\* as a state before them had it.
Made == last.op = "__init__" \/ (last.op # "" /\ Post # Pre)

\* Both walks end, the backward one is the forward one reversed, and lh and lt
\* name the first and the last key walked.
Ordered(S) ==
  LET ks == keys(S)
      rks == rkeys(S)
  IN /\ ks.exc = "none"
     /\ rks.exc = "none"
     /\ rks.ret = reversed(ks.ret)
     /\ S.lh = (IF ks.ret = <<>> THEN nil ELSE ks.ret[1])
     /\ S.lt = (IF ks.ret = <<>> THEN nil ELSE ks.ret[Len(ks.ret)])

-----------------------------------------------------------------------------
\* C1: after every public operation, whatever calls produced the state, the walk
\* along next from head visits every key of the entry table exactly once and
\* ends at nil right after tail, so len(), keys() and membership describe the
\* same set of keys.
C1_WalkVisitsTable ==
  /\ keys(Obj).exc = "none"
  /\ Range(K(Obj)) = DOMAIN dict
  /\ Len(K(Obj)) = Cardinality(DOMAIN dict)
  /\ lt = (IF K(Obj) = <<>> THEN nil ELSE K(Obj)[Len(K(Obj))])
  /\ len(Obj).exc = "none"
  /\ len(Obj).ret = <<Cardinality(DOMAIN dict)>>
  /\ \A k \in Keys \cup LinkKeys : contains(Obj, k) <=> k \in Range(K(Obj))

\* C2: set(key, value) on a key that is present replaces that entry's value and
\* nothing else: keys(), head, tail and every entry's links stay as they were.
C2_OverwriteKeepsOrder ==
  (Ran("__setitem__") /\ Has(Pre, last.args.a)) =>
    /\ last.exc = "none"
    /\ keys(Post).exc = "none"
    /\ K(Post) = K(Pre)
    /\ lh = Pre.lh
    /\ lt = Pre.lt
    /\ DOMAIN dict = DOMAIN Pre.dict
    /\ \A k \in DOMAIN dict :
         /\ dict[k].prev = Pre.dict[k].prev
         /\ dict[k].next = Pre.dict[k].next
         /\ dict[k].val = (IF k = last.args.a THEN last.args.value ELSE Pre.dict[k].val)

C2_Witness ==
  /\ Ran("__setitem__")
  /\ Has(Pre, last.args.a)
  /\ Pre.dict[last.args.a].val # last.args.value
  /\ Len(K(Pre)) = 3
  /\ K(Pre)[2] = last.args.a

\* C3: set(key, value) on an absent key appends it: keys() is the old keys()
\* followed by key, the new entry has prev = old tail and next = nil, tail is key,
\* head is key only when the map was empty, and no other entry's value changes.
C3_SetAppends ==
  (Ran("__setitem__") /\ ~Has(Pre, last.args.a)) =>
    /\ last.exc = "none"
    /\ keys(Post).exc = "none"
    /\ K(Post) = Append(K(Pre), last.args.a)
    /\ dict[last.args.a] = [prev |-> Pre.lt, val |-> last.args.value, next |-> nil]
    /\ lt = last.args.a
    /\ lh = (IF DOMAIN Pre.dict = {} THEN last.args.a ELSE Pre.lh)
    /\ DOMAIN dict = DOMAIN Pre.dict \cup {last.args.a}
    /\ \A k \in DOMAIN Pre.dict : dict[k].val = Pre.dict[k].val

C3_Witness ==
  /\ Ran("__setitem__")
  /\ ~Has(Pre, last.args.a)
  /\ Len(K(Pre)) = 2
  /\ K(Post) = Append(K(Pre), last.args.a)

\* C4: delete(key) on a present key (head, tail, interior or the only entry)
\* leaves keys() as the old keys() without key, the others in their old order;
\* the length drops by one, key is in neither walk, and deleting the only entry
\* leaves head = tail = nil.
C4_DeleteRemovesOne ==
  (Ran("__delitem__") /\ Has(Pre, last.args.a)) =>
    /\ last.exc = "none"
    /\ keys(Post).exc = "none"
    /\ rkeys(Post).exc = "none"
    /\ K(Post) = Without(K(Pre), last.args.a)
    /\ len(Post).ret[1] = len(Pre).ret[1] - 1
    /\ last.args.a \notin Range(K(Post)) \cup Range(RK(Post))
    /\ RK(Post) = reversed(K(Post))
    /\ ~contains(Post, last.args.a)
    /\ (len(Pre).ret[1] = 1 => lh = nil /\ lt = nil)

\* An interior key is deleted.
C4_Witness ==
  /\ Returned("__delitem__")
  /\ Len(K(Pre)) = 4
  /\ K(Pre)[3] = last.args.a
  /\ Len(K(Post)) = 3

\* C5: swap(a, b) on two distinct present keys leaves keys() as the old keys()
\* with a and b exchanged and every other key at its old index, in every
\* topology; rkeys() is the exact reverse and head and tail name the new first
\* and last key.
C5_SwapExchanges ==
  (Ran("swap") /\ last.args.a # last.args.b
     /\ Has(Pre, last.args.a) /\ Has(Pre, last.args.b)) =>
    /\ last.exc = "none"
    /\ Ordered(Post)
    /\ K(Post) = Exchanged(K(Pre), last.args.a, last.args.b)

\* Both keys in the interior and not neighbours.
C5_Witness ==
  /\ Returned("swap")
  /\ Len(K(Pre)) = 5
  /\ K(Pre)[2] = last.args.a
  /\ K(Pre)[4] = last.args.b
  /\ K(Post)[2] = last.args.b

\* C6: movebefore(ref, key) and moveafter(ref, key) on two distinct present keys
\* leave keys() as the old keys() with key taken out and put back right before
\* (after) ref, in every topology; rkeys() is the exact reverse and head and tail
\* name the new first and last key.
C6_MovePutsNextToRef ==
  ((Ran("movebefore") \/ Ran("moveafter")) /\ last.args.a # last.args.b
     /\ Has(Pre, last.args.a) /\ Has(Pre, last.args.b)) =>
    LET ref == last.args.a
        key == last.args.b
        rest == Without(K(Pre), key)
        at == Pos(rest, ref)
    IN /\ last.exc = "none"
       /\ Ordered(Post)
       /\ K(Post) = PutAfter(rest, IF Ran("movebefore") THEN at - 1 ELSE at, key)

\* The head is moved to between two interior keys.
C6_Witness ==
  /\ Returned("movebefore")
  /\ Len(K(Pre)) = 5
  /\ K(Pre)[1] = last.args.b
  /\ K(Pre)[4] = last.args.a
  /\ K(Post)[3] = last.args.b

\* C7: insertbefore(ref, key, value) and insertafter(ref, key, value) with ref
\* present and key not in the map leave keys() as the old keys() with key put in
\* right before (after) ref, bind key to value, make key the head when ref was
\* the head (the tail when ref was the tail), and keep rkeys() the reverse of
\* keys().
C7_InsertPutsNextToRef ==
  ((Ran("insertbefore") \/ Ran("insertafter"))
     /\ Has(Pre, last.args.a) /\ ~Has(Pre, last.args.b)) =>
    LET ref == last.args.a
        key == last.args.b
        at == Pos(K(Pre), ref)
    IN /\ last.exc = "none"
       /\ Ordered(Post)
       /\ K(Post) = PutAfter(K(Pre), IF Ran("insertbefore") THEN at - 1 ELSE at, key)
       /\ getitem(Post, key) = Ok(Post, <<last.args.value>>)
       /\ (Ran("insertbefore") /\ Pre.lh = ref => lh = key)
       /\ (Ran("insertafter") /\ Pre.lt = ref => lt = key)
       /\ \A k \in DOMAIN Pre.dict : dict[k].val = Pre.dict[k].val

\* A key is inserted after an interior key.
C7_Witness ==
  /\ Returned("insertafter")
  /\ Len(K(Pre)) = 4
  /\ K(Pre)[2] = last.args.a
  /\ K(Post)[3] = last.args.b
  /\ Len(K(Post)) = 5

\* C8: a call that fails leaves the entry table, head and tail as they were
\* before the call.
C8_FailureChangesNothing ==
  (last.op # "" /\ last.exc # "none") => Post = Pre

\* movebefore with the key present and ref absent.
C8_Witness ==
  /\ Ran("movebefore")
  /\ last.exc = "KeyError"
  /\ Has(Pre, last.args.b)
  /\ ~Has(Pre, last.args.a)
  /\ Len(K(Pre)) = 2

\* C9: swap is its own inverse: after swap(a, b) on two distinct present keys,
\* swap(a, b) again, or swap(b, a), brings back the entry table, head and tail.
C9_SwapTwiceRestores ==
  Returned("swap") =>
    /\ swap(Post, last.args.a, last.args.b) = Ok(Pre, <<>>)
    /\ swap(Post, last.args.b, last.args.a) = Ok(Pre, <<>>)

C9_Witness ==
  /\ Returned("swap")
  /\ Len(K(Pre)) = 4
  /\ K(Pre)[1] = last.args.b
  /\ K(Pre)[2] = last.args.a
  /\ Post # Pre

\* C10: movefirst(key) and movelast(key) on a present key make it the head (the
\* tail) and keep the other keys in their order; when key is the head (the tail)
\* already, the state is unchanged, and calling again changes nothing.
C10_MoveToEnd ==
  ((Ran("movefirst") \/ Ran("movelast")) /\ Has(Pre, last.args.a)) =>
    LET key == last.args.a
        rest == Without(K(Pre), key)
    IN /\ last.exc = "none"
       /\ Ordered(Post)
       /\ Ran("movefirst") =>
            /\ K(Post) = <<key>> \o rest
            /\ lh = key
            /\ (Pre.lh = key => Post = Pre)
            /\ movefirst(Post, key) = Ok(Post, <<>>)
       /\ Ran("movelast") =>
            /\ K(Post) = Append(rest, key)
            /\ lt = key
            /\ (Pre.lt = key => Post = Pre)
            /\ movelast(Post, key) = Ok(Post, <<>>)

C10_Witness ==
  /\ Returned("movefirst")
  /\ Len(K(Pre)) = 4
  /\ K(Pre)[3] = last.args.a
  /\ lh = last.args.a

\* C11: alter_key(old_key, new_key) with old_key present and new_key not in the
\* map leaves keys() as the old keys() with new_key in old_key's place, keeps the
\* value bound to it and every other key's value, makes the predecessor's next
\* and the successor's prev (head and tail at the ends) name new_key, and
\* takes old_key out of the map.
C11_AlterKeyRenamesInPlace ==
  (Ran("alter_key") /\ Has(Pre, last.args.a) /\ ~Has(Pre, last.args.b)) =>
    LET old_key == last.args.a
        new_key == last.args.b
        was == Pre.dict[old_key]
    IN /\ last.exc = "none"
       /\ keys(Post).exc = "none"
       /\ K(Post) = [i \in 1..Len(K(Pre)) |->
                       IF K(Pre)[i] = old_key THEN new_key ELSE K(Pre)[i]]
       /\ DOMAIN dict = (DOMAIN Pre.dict \ {old_key}) \cup {new_key}
       /\ dict[new_key] = was
       /\ \A k \in DOMAIN Pre.dict \ {old_key} : dict[k].val = Pre.dict[k].val
       /\ IF was.prev = nil THEN lh = new_key
          ELSE dict[was.prev].next = new_key /\ lh = Pre.lh
       /\ IF was.next = nil THEN lt = new_key
          ELSE dict[was.next].prev = new_key /\ lt = Pre.lt
       /\ ~contains(Post, old_key)
       /\ Ordered(Post)

\* An interior key is renamed.
C11_Witness ==
  /\ Returned("alter_key")
  /\ Len(K(Pre)) = 3
  /\ K(Pre)[2] = last.args.a
  /\ ~Has(Pre, last.args.b)
  /\ K(Post)[2] = last.args.b
  /\ dict[K(Post)[1]].val # dict[K(Post)[2]].val

\* items() after sort() on the map built from [(1, 3), (2, 1), (3, 2)].
SortedExample ==
  items(sort(init(Empty, <<<<1, 3>>, <<2, 1>>, <<3, 2>>>>).st, "value", FALSE).st).ret

C13_SortStable ==
  Ran("sort") =>
    /\ last.exc = "none"
    /\ \A x \in DOMAIN Pre.dict, y \in DOMAIN Pre.dict :
         (/\ sortkey(<<x, Pre.dict[x].val>>, last.args.keyfn)
               = sortkey(<<y, Pre.dict[y].val>>, last.args.keyfn)
          /\ Pos(K(Pre), x) < Pos(K(Pre), y))
         => Pos(K(Post), x) < Pos(K(Post), y)

\* C14: in every state reached by calls within the contract (set, delete, pop,
\* popitem, clear, sort, swap, the move methods, and insert and alter_key calls
\* that bring in a key not yet in the map), the backward traversals are the
\* exact reverse of the forward ones: rkeys() of keys(), rvalues() of values(),
\* ritems() of items().
C14_BackwardIsReverse ==
  Made =>
    LET ks == keys(Obj)
        vs == values(Obj)
        its == items(Obj)
        rks == rkeys(Obj)
        rvs == rvalues(Obj)
        rits == ritems(Obj)
    IN /\ ks.exc = "none" /\ rks.exc = "none"
       /\ vs.exc = "none" /\ rvs.exc = "none"
       /\ its.exc = "none" /\ rits.exc = "none"
       /\ rks.ret = reversed(ks.ret)
       /\ rvs.ret = reversed(vs.ret)
       /\ rits.ret = reversed(its.ret)

\* Three keys, out of key order and with values that differ, after an insert.
C14_Witness ==
  /\ Returned("insertbefore")
  /\ keys(Obj).ret = <<3, 1, 2>>
  /\ rvalues(Obj).ret = <<2, 1, 2>>
  /\ ritems(Obj).ret = <<<<2, 2>>, <<1, 1>>, <<3, 2>>>>

\* C15: the three forward traversals, each of which walks the links on its own,
\* agree in every reachable state: they end alike, items() is keys() zipped
\* with values(), and each key of keys() is paired with the value get(key)
\* gives.
C15_ForwardWalksAgree ==
  LET ks == keys(Obj)
      vs == values(Obj)
      its == items(Obj)
  IN /\ vs.exc = ks.exc
     /\ its.exc = ks.exc
     /\ ks.exc = "none" =>
          /\ Len(vs.ret) = Len(ks.ret)
          /\ its.ret = [i \in 1..Len(ks.ret) |-> <<ks.ret[i], vs.ret[i]>>]
          /\ \A i \in 1..Len(ks.ret) :
               getitem(Obj, ks.ret[i]) = Ok(Obj, <<its.ret[i][2]>>)

\* Three keys, out of key order and with values that differ, after a move.
C15_Witness ==
  /\ Returned("movefirst")
  /\ items(Obj).ret = <<<<3, 1>>, <<1, 2>>, <<2, 1>>>>
  /\ values(Obj).ret = <<1, 2, 1>>

\* C16: pop(key[, default]) on a present key returns its value and does what
\* delete(key) does, with or without a default; on an absent key it returns the
\* default when one was given, and fails with KeyError when none was; in both
\* cases the map is left as it was.
C16_Pop ==
  Ran("pop") =>
    LET key == last.args.a
        default == last.args.value
    IN /\ Has(Pre, key) =>
            /\ last.exc = "none"
            /\ last.ret = <<Pre.dict[key].val>>
            /\ delitem(Pre, key) = Ok(Post, <<>>)
       /\ (~Has(Pre, key) /\ default # nil) =>
            /\ last.exc = "none"
            /\ last.ret = <<default>>
            /\ Post = Pre
       /\ (~Has(Pre, key) /\ default = nil) =>
            /\ last.exc = "KeyError"
            /\ Post = Pre

\* An interior key is popped, with a default that is not its value.
C16_Witness ==
  /\ Returned("pop")
  /\ Len(K(Pre)) = 3
  /\ K(Pre)[2] = last.args.a
  /\ last.args.value # nil
  /\ last.ret # <<last.args.value>>
  /\ Len(K(Post)) = 2

\* C17: popitem() on a map that is not empty returns (tail key, its value) and
\* removes that entry and no other, so that the key before it becomes the tail
\* (head = tail = nil when it was the only entry); on an empty map it fails with
\* KeyError and the map stays empty.
C17_PopItem ==
  Ran("popitem") =>
    IF DOMAIN Pre.dict # {}
    THEN LET n == Len(K(Pre))
             key == K(Pre)[n]
         IN /\ last.exc = "none"
            /\ key = Pre.lt
            /\ last.ret = <<key, Pre.dict[key].val>>
            /\ K(Post) = SubSeq(K(Pre), 1, n - 1)
            /\ DOMAIN dict = DOMAIN Pre.dict \ {key}
            /\ \A k \in DOMAIN dict : dict[k].val = Pre.dict[k].val
            /\ lt = (IF n = 1 THEN nil ELSE K(Pre)[n - 1])
            /\ (n = 1 => lh = nil)
            /\ Ordered(Post)
    ELSE /\ last.exc = "KeyError"
         /\ Post = Empty

\* The tail of a map of three keys is popped.
C17_Witness ==
  /\ Returned("popitem")
  /\ Len(K(Pre)) = 3
  /\ last.ret[1] = Pre.lt
  /\ lt = K(Pre)[2]
  /\ lt # lh

\* C18: in every reachable state where the map has entries, firstkey() and
\* lastkey() return the first and the last element of keys(), never nil; they
\* fail with KeyError exactly when the map has no entries.
C18_FirstLastKey ==
  LET ks == keys(Obj)
      f == firstkey(Obj)
      l == lastkey(Obj)
  IN ks.exc = "none" =>
       /\ f.exc = "KeyError" <=> DOMAIN dict = {}
       /\ l.exc = "KeyError" <=> DOMAIN dict = {}
       /\ DOMAIN dict # {} =>
            /\ f = Ok(Obj, <<ks.ret[1]>>)
            /\ l = Ok(Obj, <<ks.ret[Len(ks.ret)]>>)
            /\ f.ret # <<nil>>
            /\ l.ret # <<nil>>

\* C19: next_key(k) and prev_key(k) return the key right after and right before
\* k in keys() when there is one; they fail with KeyError when k is the tail
\* (the head) and when k is absent, the empty map included; they never return
\* nil and never change the map.
C19_Neighbours ==
  (Ran("next_key") \/ Ran("prev_key")) =>
    LET k == last.args.a
        at == Pos(K(Pre), k)
        to == IF Ran("next_key") THEN at + 1 ELSE at - 1
    IN /\ Post = Pre
       /\ last.ret # <<nil>>
       /\ IF Has(Pre, k) /\ to \in 1..Len(K(Pre))
          THEN last.exc = "none" /\ last.ret = <<K(Pre)[to]>>
          ELSE last.exc = "KeyError" /\ last.ret = <<>>

\* The key before the middle key of three.
C19_Witness ==
  /\ Returned("prev_key")
  /\ Len(K(Pre)) = 3
  /\ K(Pre)[2] = last.args.a
  /\ last.ret = <<K(Pre)[1]>>

\* C20: insertfirst(key, value) and insertlast(key, value) with a key not yet in
\* the map make key the new head (the new tail) bound to value and keep all
\* other keys, in their old order, after (before) it; on an empty map the result
\* is the map of one entry with head = tail = key.
C20_InsertAtEnd ==
  ((Ran("insertfirst") \/ Ran("insertlast")) /\ ~Has(Pre, last.args.a)) =>
    LET key == last.args.a
    IN /\ last.exc = "none"
       /\ Ordered(Post)
       /\ Len(K(Post)) = Cardinality(DOMAIN dict)
       /\ getitem(Post, key) = Ok(Post, <<last.args.value>>)
       /\ \A k \in DOMAIN Pre.dict : dict[k].val = Pre.dict[k].val
       /\ Ran("insertfirst") => K(Post) = <<key>> \o K(Pre) /\ lh = key
       /\ Ran("insertlast") => K(Post) = Append(K(Pre), key) /\ lt = key
       /\ DOMAIN Pre.dict = {} =>
            /\ lh = key
            /\ lt = key
            /\ dict = (key :> [prev |-> nil, val |-> last.args.value, next |-> nil])

\* A key is put in front of a map of four.
C20_Witness ==
  /\ Returned("insertfirst")
  /\ Len(K(Pre)) = 4
  /\ ~Has(Pre, last.args.a)
  /\ K(Post)[1] = last.args.a
  /\ K(Post)[2] = Pre.lh
  /\ Len(K(Post)) = 5

\* C21: setdefault(key, default) on a present key returns the stored value and
\* leaves the whole state as it was, the default is not stored; on an absent key
\* it appends (key, default) at the tail, as set does, and returns default.
C21_SetDefault ==
  Ran("setdefault") =>
    LET key == last.args.a
        default == last.args.value
    IN /\ last.exc = "none"
       /\ Has(Pre, key) =>
            /\ last.ret = <<Pre.dict[key].val>>
            /\ Post = Pre
       /\ ~Has(Pre, key) =>
            /\ last.ret = <<default>>
            /\ items(Post).exc = "none"
            /\ items(Post).ret = Append(items(Pre).ret, <<key, default>>)
            /\ lt = key
            /\ setitem(Pre, key, default) = Ok(Post, <<>>)

\* A present key whose value is not the default.
C21_Witness ==
  /\ Returned("setdefault")
  /\ Len(K(Pre)) = 3
  /\ K(Pre)[2] = last.args.a
  /\ Pre.dict[last.args.a].val # last.args.value
  /\ last.ret = <<Pre.dict[last.args.a].val>>

\* s with every element kept at its first occurrence only.
RECURSIVE FirstOccurrences(_)
FirstOccurrences(s) ==
  IF s = <<>> THEN <<>>
  ELSE LET d == FirstOccurrences(SubSeq(s, 1, Len(s) - 1))
       IN IF s[Len(s)] \in Range(d) THEN d ELSE Append(d, s[Len(s)])

\* The keys of a sequence of pairs, and the value of the last pair with key k.
PairKeysOf(data) == [i \in 1..Len(data) |-> data[i][1]]
LastValue(data, k) ==
  data[CHOOSE i \in 1..Len(data) :
         data[i][1] = k /\ \A j \in (i + 1)..Len(data) : data[j][1] # k][2]

\* C22: update(pairs) and odict(pairs) do what set does for each pair in the
\* order given: a key that is present keeps its position and takes the new
\* value, a key that is not is appended at the tail, in source order.
C22_UpdateIsSetEach ==
  ((Ran("update") \/ Ran("__init__")) /\ last.args.kwds = <<>>) =>
    LET data == last.args.data
        base == IF Ran("__init__") THEN Empty ELSE Pre
        given == Range(PairKeysOf(data))
        new == SelectSeq(FirstOccurrences(PairKeysOf(data)), LAMBDA k : ~Has(base, k))
    IN /\ last.exc = "none"
       /\ Ordered(Post)
       /\ K(Post) = K(base) \o new
       /\ DOMAIN dict = DOMAIN base.dict \cup given
       /\ \A k \in DOMAIN dict :
            dict[k].val = (IF k \in given THEN LastValue(data, k) ELSE base.dict[k].val)

\* update with a new key, then a present key, then the new key again.
C22_Witness ==
  /\ Returned("update")
  /\ K(Pre) = <<2>>
  /\ PairKeysOf(last.args.data) = <<1, 2, 1>>
  /\ last.args.data[1][2] # last.args.data[3][2]
  /\ last.args.data[2][2] # Pre.dict[2].val
  /\ K(Post) = <<2, 1>>

\* C24: swap(a, b), movebefore(ref, key), moveafter(ref, key),
\* insertbefore(ref, key, v) and insertafter(ref, key, v) called with two equal
\* keys fail with ValueError and change nothing, whether or not the key is in
\* the map: the keys are compared before they are looked up.
C24_EqualKeysRefused ==
  ((Ran("swap") \/ Ran("movebefore") \/ Ran("moveafter")
      \/ Ran("insertbefore") \/ Ran("insertafter"))
     /\ last.args.a = last.args.b) =>
    /\ last.exc = "ValueError"
    /\ Post = Pre

\* swap of a key with itself, the key not in the map.
C24_Witness ==
  /\ Ran("swap")
  /\ last.args.a = last.args.b
  /\ ~Has(Pre, last.args.a)
  /\ Len(K(Pre)) = 2
  /\ last.exc = "ValueError"

\* The methods that look one key up, those that look a reference key up for a
\* new key, and those that look two keys up.
OneKeyMethods ==
  {"__getitem__", "__delitem__", "next_key", "prev_key", "movefirst", "movelast",
   "alter_key"}
RefKeyMethods == {"insertbefore", "insertafter"}
TwoKeyMethods == {"swap", "movebefore", "moveafter"}

\* C25: with distinct key arguments, a call fails with KeyError whenever a key
\* it has to resolve is absent: index lookup, delete, pop without default,
\* next_key and prev_key, insertbefore and insertafter (ref), swap (either key),
\* movebefore and moveafter (either key), movefirst, movelast and alter_key
\* (old key); and k in map is true exactly when the lookup of k succeeds.
C25_AbsentKeyRefused ==
  last.op # "" =>
    LET a == last.args.a
        b == last.args.b
    IN /\ (last.op \in OneKeyMethods /\ ~Has(Pre, a)) => last.exc = "KeyError"
       /\ (Ran("pop") /\ last.args.value = nil /\ ~Has(Pre, a)) =>
            last.exc = "KeyError"
       /\ (last.op \in RefKeyMethods /\ a # b /\ ~Has(Pre, a)) =>
            last.exc = "KeyError"
       /\ (last.op \in TwoKeyMethods /\ a # b /\ (~Has(Pre, a) \/ ~Has(Pre, b))) =>
            last.exc = "KeyError"
       /\ \A k \in Keys : contains(Obj, k) <=> getitem(Obj, k).exc = "none"
       /\ Ran("__getitem__") => (last.exc = "none" <=> contains(Pre, a))

\* moveafter with ref in the map and the key to move not in it.
C25_Witness ==
  /\ Ran("moveafter")
  /\ last.args.a # last.args.b
  /\ Has(Pre, last.args.a)
  /\ ~Has(Pre, last.args.b)
  /\ Len(K(Pre)) = 2
  /\ last.exc = "KeyError"

\* C26: clear() from any reachable state, one with broken links included, gives
\* the empty map: no entries, head = nil and tail = nil, the very state of a
\* newly constructed odict(), so that no later call can tell the two apart.
C26_ClearEmpties ==
  LET r == clear(Obj)
  IN /\ r.exc = "none"
     /\ DOMAIN r.st.dict = {}
     /\ r.st.lh = nil
     /\ r.st.lt = nil
     /\ r.st = init(Empty, <<>>).st
     /\ Ran("clear") => last.exc = "none" /\ Post = init(Empty, <<>>).st

\* A map of three keys is cleared.
C26_Witness ==
  /\ Returned("clear")
  /\ Len(K(Pre)) = 3
  /\ DOMAIN dict = {}
  /\ lh = nil
  /\ lt = nil

\* C27: in every state reached by calls within the contract, the entry table,
\* head and tail are the very ones that setting the pairs of items(), in order,
\* into an empty map gives; a map rebuilt from such a snapshot (pickle, copy,
\* the rebuild of sort) is the same state, so it has sound links and every later
\* call does on it what it does on the original.
C27_SnapshotRoundTrip ==
  Made =>
    LET its == items(Obj)
        rebuilt == init(Empty, its.ret)
    IN /\ its.exc = "none"
       /\ rebuilt.exc = "none"
       /\ rebuilt.st = Obj
       /\ Ordered(rebuilt.st)

\* Three keys, out of key order and with values that differ, after a move.
C27_Witness ==
  /\ Returned("movebefore")
  /\ items(Obj).ret = <<<<2, 1>>, <<3, 2>>, <<1, 1>>>>
  /\ init(Empty, items(Obj).ret).st = Obj

\* C28: odict(..., k=v) and update(..., k=v) are refused with TypeError before
\* any pair is applied; the refused update leaves the map as it was, and the
\* refused constructor has set nothing.
C28_KeywordsRefused ==
  ((Ran("update") \/ Ran("__init__")) /\ last.args.kwds # <<>>) =>
    /\ last.exc = "TypeError"
    /\ Post = Pre
    /\ Ran("__init__") =>
         init_kwds(Empty, last.args.data, last.args.kwds) = Raise(Empty, "TypeError")

\* update with a pair that would have added a key, and a keyword argument.
C28_Witness ==
  /\ Ran("update")
  /\ last.args.kwds # <<>>
  /\ Len(last.args.data) = 1
  /\ ~Has(Pre, last.args.data[1][1])
  /\ Len(K(Pre)) = 1
  /\ last.exc = "TypeError"

\* C29: after any calls of set, delete, swap, the move and insert methods and
\* sort in which every insert brings in a key not yet in the map, the links are
\* consistent both ways: for every stored key k with prev(k) # nil the entry of
\* prev(k) is stored and its next is k, for every k with next(k) # nil the entry
\* of next(k) is stored and its prev is k; no link names a key that is not
\* stored.
C29_LinksBothWays ==
  last.op # "" =>
    \A k \in DOMAIN dict :
      /\ dict[k].prev # nil =>
           dict[k].prev \in DOMAIN dict /\ dict[dict[k].prev].next = k
      /\ dict[k].next # nil =>
           dict[k].next \in DOMAIN dict /\ dict[dict[k].next].prev = k

\* A key is moved from the head to between the third and the fourth of five.
C29_Witness ==
  /\ Returned("moveafter")
  /\ Len(K(Pre)) = 5
  /\ K(Pre)[1] = last.args.b
  /\ K(Pre)[3] = last.args.a
  /\ K(Post)[3] = last.args.b
  /\ dict[last.args.b].prev = last.args.a
  /\ dict[dict[last.args.b].next].prev = last.args.b

\* C30: in every state reached by set, delete, pop, popitem, clear, sort, swap,
\* the move methods and insert and alter_key calls that bring in a key not yet
\* in the map, head = nil exactly when the map is empty, exactly when tail =
\* nil; otherwise one stored entry and no other has prev = nil, and its key is
\* head, and one stored entry and no other has next = nil, and its key is tail.
C30_HeadAndTail ==
  last.op # "" =>
    /\ lh = nil <=> DOMAIN dict = {}
    /\ lt = nil <=> DOMAIN dict = {}
    /\ DOMAIN dict # {} =>
         /\ {k \in DOMAIN dict : dict[k].prev = nil} = {lh}
         /\ {k \in DOMAIN dict : dict[k].next = nil} = {lt}

\* The head of a map of three keys is popped.
C30_Witness ==
  /\ Returned("pop")
  /\ Len(K(Pre)) = 3
  /\ last.args.a = Pre.lh
  /\ lh = K(Pre)[2]
  /\ dict[lh].prev = nil
  /\ lt = Pre.lt

\* C23: copy() leaves the original as it was and returns a map with sound links
\* and the same items() sequence; from then on every structural call (set,
\* delete, swap, move*, insert*, sort, clear) made on the copy leaves the
\* entry table, head and tail of the original unchanged, and every such call
\* made on the original leaves those of the copy unchanged.
C23_CopyIsIndependent ==
  [][/\ last'.op = "copy" =>
          /\ Obj' = Obj
          /\ other'.made
          /\ items(Twin').exc = "none"
          /\ items(Twin').ret = items(Obj).ret
          /\ Ordered(Twin')
     /\ (last'.op \notin {"", "copy"} /\ last'.args.on = "c") => Obj' = Obj
     /\ (last'.op \notin {"", "copy"} /\ last'.args.on = "o") => other' = other
    ]_vars

\* The copy was reordered by a move that returned, and the original still has
\* its three keys in the order it had when it was copied.
C23_Witness ==
  /\ other.made
  /\ Returned("movefirst")
  /\ last.args.on = "c"
  /\ keys(Obj).ret = <<1, 2, 3>>
  /\ keys(Twin).ret = <<3, 1, 2>>
  /\ keys(last.pre).ret = <<1, 2, 3>>

\* C31: a move to the place the key has already changes nothing: movebefore(ref,
\* key) with key right before ref, and moveafter(ref, key) with key right after
\* ref, return and leave the entry table, head and tail as they were, at the
\* head, at the tail and between two other keys alike.
C31_MoveInPlace ==
  LET ref == last.args.a
      key == last.args.b
  IN /\ (Ran("movebefore") /\ ref # key /\ Has(Pre, ref) /\ Has(Pre, key)
           /\ Pre.dict[ref].prev = key) =>
          last.exc = "none" /\ Post = Pre
     /\ (Ran("moveafter") /\ ref # key /\ Has(Pre, ref) /\ Has(Pre, key)
           /\ Pre.dict[ref].next = key) =>
          last.exc = "none" /\ Post = Pre

\* movebefore of a key that has a key before it and is right before ref, which
\* has a key after it.
C31_Witness ==
  /\ Returned("movebefore")
  /\ K(Pre) = <<3, 1, 2, 4>>
  /\ last.args.a = 2
  /\ last.args.b = 1
  /\ Post = Pre

\* C32: insertbefore, insertafter, insertfirst and insertlast called on a map
\* with sound links with a key that is already stored keep the links sound:
\* afterwards the forward and the backward walk end, each visits every stored
\* key exactly once, and head and tail name stored keys.
C32_InsertStoredKeepsLinks ==
  LET key == IF last.op \in {"insertbefore", "insertafter"} THEN last.args.b
             ELSE last.args.a
  IN (/\ last.op \in {"insertbefore", "insertafter", "insertfirst", "insertlast"}
      /\ Sound(Pre)
      /\ Has(Pre, key)) =>
       /\ Sound(Post)
       /\ lh \in DOMAIN dict
       /\ lt \in DOMAIN dict

\* C33: alter_key(old_key, new_key) on a map with sound links, with old_key
\* stored and new_key stored too (next to old_key, apart from it, or old_key
\* itself), keeps the links sound: afterwards the forward and the backward walk
\* end and each visits every stored key exactly once; and alter_key(k, k)
\* leaves the map as it was.
C33_AlterKeyOntoStored ==
  LET old_key == last.args.a
      new_key == last.args.b
  IN (/\ Ran("alter_key")
      /\ Sound(Pre)
      /\ Has(Pre, old_key)
      /\ Has(Pre, new_key)) =>
       /\ Sound(Post)
       /\ old_key = new_key => last.exc = "none" /\ Post = Pre

\* The methods that reorder the map and are to leave its contents alone.
OrderMethods == {"swap", "movebefore", "moveafter", "movefirst", "movelast", "sort"}

\* C34: swap, movebefore, moveafter, movefirst, movelast and sort, whether they
\* return or raise, leave the set of stored keys and the value stored under
\* each key as they were; what they change is prev, next, head and tail.
C34_OrderOnly ==
  last.op \in OrderMethods =>
    /\ DOMAIN dict = DOMAIN Pre.dict
    /\ \A k \in DOMAIN dict : dict[k].val = Pre.dict[k].val
    /\ Range(items(Post).ret) = Range(items(Pre).ret)

\* Two keys with different values swapped: the order is turned around, each
\* key has the value it had.
C34_Witness ==
  /\ Returned("swap")
  /\ items(Pre).ret = <<<<1, 1>>, <<2, 2>>, <<3, 1>>>>
  /\ items(Post).ret = <<<<2, 2>>, <<1, 1>>, <<3, 1>>>>

\* C35: in every run from the empty map made only of set, setdefault, update,
\* delete, pop and popitem calls, keys() is the list of the present keys in the
\* order in which each was last put in while absent; head is the earliest of
\* them and tail the latest, and a key set while absent (never stored before,
\* or deleted since) is the last of keys().
C35_InsertionOrder ==
  last.op # "" =>
    /\ keys(Obj).exc = "none"
    /\ K(Obj) = inserted
    /\ lh = (IF inserted = <<>> THEN nil ELSE inserted[1])
    /\ lt = (IF inserted = <<>> THEN nil ELSE inserted[Len(inserted)])
    /\ (Ran("__setitem__") /\ ~Has(Pre, last.args.a)) =>
         K(Post) = Append(K(Pre), last.args.a)

\* Key 1, which keys() of a full map can only have behind 2 and 3 after it was
\* taken out and put in again, is set while absent and ends up last.
C35_Witness ==
  /\ Returned("__setitem__")
  /\ last.args.a = 1
  /\ K(Pre) = <<3, 2>>
  /\ K(Post) = <<3, 2, 1>>
  /\ inserted = <<3, 2, 1>>
  /\ lh = 3

\* The methods that bring a key into the map.
InsertMethods ==
  {"__setitem__", "insertbefore", "insertafter", "insertfirst", "insertlast"}

\* C36: when set, insertbefore, insertafter, insertfirst or insertlast has put
\* a key into a map that did not have it, deleting that key gives back the
\* entry table, head and tail that the map had before the insertion.
C36_InsertThenDelete ==
  LET k == IF last.op \in {"insertbefore", "insertafter"} THEN last.args.b
           ELSE last.args.a
  IN (last.op \in InsertMethods /\ last.exc = "none" /\ ~Has(Pre, k)) =>
       /\ Has(Post, k)
       /\ delitem(Post, k) = Ok(Pre, <<>>)

\* A key put between two others by insertafter; deleting it gives back the
\* map of four keys as it was.
C36_Witness ==
  /\ Returned("insertafter")
  /\ K(Pre) = <<4, 2, 1, 3>>
  /\ K(Post) = <<4, 2, 5, 1, 3>>
  /\ delitem(Post, 5).st = Pre

\* The first and the last place at which key k occurs in a sequence of pairs.
FirstAt(data, k) ==
  CHOOSE i \in 1..Len(data) : data[i][1] = k /\ \A j \in 1..(i - 1) : data[j][1] # k
LastAt(data, k) ==
  CHOOSE i \in 1..Len(data) : data[i][1] = k /\ \A j \in (i + 1)..Len(data) : data[j][1] # k

\* C37: after odict(pairs) or update(pairs), a key that occurs more than once in
\* pairs is in keys() exactly once; if the map had it, it is where it was; if
\* not, it comes after the keys the map had and after the new keys whose first
\* occurrence comes before its own first occurrence; and its value is the value
\* of its last occurrence.
C37_RepeatedKey ==
  ((Ran("update") \/ Ran("__init__")) /\ last.args.kwds = <<>>) =>
    LET data == last.args.data
        base == IF Ran("__init__") THEN Empty ELSE Pre
        repeated == {data[i][1] : i \in {j \in 1..Len(data) :
                                          \E h \in 1..Len(data) : h # j /\ data[h][1] = data[j][1]}}
        new == {data[i][1] : i \in 1..Len(data)} \ DOMAIN base.dict
    IN \A k \in repeated :
         /\ Cardinality({i \in 1..Len(K(Post)) : K(Post)[i] = k}) = 1
         /\ Pos(K(Post), k) =
              (IF Has(base, k) THEN Pos(K(base), k)
               ELSE Len(K(base))
                      + Cardinality({x \in new : FirstAt(data, x) < FirstAt(data, k)}) + 1)
         /\ dict[k].val = data[LastAt(data, k)][2]

\* Key 2 occurs first and last with different values, a new key between: 2 is
\* put in once, before the other key, with the value of its last occurrence.
C37_Witness ==
  /\ Returned("update")
  /\ K(Pre) = <<>>
  /\ last.args.data = <<<<2, 1>>, <<1, 1>>, <<2, MaxVal>>>>
  /\ items(Post).ret = <<<<2, MaxVal>>, <<1, 1>>>>

\* A generator suspended at its yield that has yielded fewer elements than the
\* map holds now, because it was not at the end or because keys were appended
\* since, yields the next of them when it is resumed and does not end.
Live(g, resumed, elems) ==
  (g.pc = "yield" /\ Len(g.out) < Len(elems)) =>
    /\ resumed.pc = "yield"
    /\ resumed.out = Append(g.out, elems[Len(g.out) + 1])

\* C38: the three generators are live views alike: whichever of them is resumed
\* while the map, to which keys are only ever appended, holds an element it has
\* not yielded, yields that element; and after each round of one next() on each,
\* the three have yielded equally many elements and the pairs yielded are the
\* keys yielded with the values yielded.
C38_LiveView ==
  [][last'.op = "next" =>
       /\ last'.args.on = "keys" => Live(iters.keys, iters'.keys, keys(Obj).ret)
       /\ last'.args.on = "values" => Live(iters.values, iters'.values, values(Obj).ret)
       /\ last'.args.on = "items" =>
            /\ Live(iters.items, iters'.items, items(Obj).ret)
            /\ Len(iters'.values.out) = Len(iters'.keys.out)
            /\ Len(iters'.items.out) = Len(iters'.keys.out)
            /\ \A n \in 1..Len(iters'.items.out) :
                 iters'.items.out[n] = <<iters'.keys.out[n], iters'.values.out[n]>>
    ]_vars

====
